---- MODULE Spec2Model ----
(***************************************************************************)
(* A model of nine parts of the FPL assistant:                             *)
(*   - the training orchestrator, main() of train_ml_models.py: training   *)
(*     steps, selection of the main dataset, the tiered loading of the     *)
(*     points predictors, the injection of predictions, and the backup /   *)
(*     overwrite / train / restore window around train_transfer_models;    *)
(*   - the ingestion cache of app/utils/fpl_data.py: FPLDataCache and the  *)
(*     three cached getters, called by concurrent asyncio tasks;           *)
(*   - feature extraction: convert_player_to_features and the functions    *)
(*     built on it (app/utils/feature_standardizer.py) and                 *)
(*     process_player_features (app/data_processing/training_data.py);     *)
(*   - the dataset builders prepare_prediction_dataset and                 *)
(*     prepare_transfer_dataset of app/training/train_models.py;           *)
(*   - the training tasks train_position_specific_models and               *)
(*     train_captain_models with the dataset directories they look into;   *)
(*   - the files of the main dataset directory over repeated runs of       *)
(*     main(): dataset names, the backup name and the reverse name sort;   *)
(*   - the loops of the training tasks over positions and model backends   *)
(*     (app/training/train_models.py);                                     *)
(*   - get_player_with_history_all_seasons and the season files it reads;  *)
(*   - the fixture readers get_team_fixtures, get_fixture_difficulty and   *)
(*     get_player_fixture_difficulty on the cached fixtures list.          *)
(* Each part has its own next-state relation and specification; the other  *)
(* parts' variables stay at their initial values.                          *)
(***************************************************************************)
EXTENDS Integers, Sequences, FiniteSets, TLC

VARIABLES
    \* ---- orchestrator (train_ml_models.py, main) ----
    pc,             \* position of main()
    exitFrom,       \* the step main() left from ("" while running or done)
    mainFile,       \* content of main_csv, the selected main dataset file
    backupFile,     \* content of backup_csv
    posIdx,         \* index into positions (outer loop, line 158)
    tierIdx,        \* index into tier_priority (inner loop, line 159)
    broke,          \* the inner loop was left by break
    predictors,     \* the dict predictors (line 156)
    probeLog,       \* what the inner loop saw and did for the current position
    loadedTier,     \* per resolved position: the tier whose load() returned True
    warned,         \* positions with the line-175 warning
    df,             \* rows of the frame read so far: the row's position
    pred_points,    \* the list pred_points (line 180)
    errorRows,      \* rows with the line-201 error
    transferOutcome,\* how train_transfer_models ended
    \* ---- ingestion cache (app/utils/fpl_data.py) ----
    now,            \* datetime.now(), in seconds
    ticks,          \* clock advances so far
    upstream,       \* what the FPL API would answer now
    updates,        \* upstream changes so far
    cache,          \* data_cache: per resource key, payload and timestamp
    task,           \* per caller: the call in progress
    started,        \* calls started so far
    requests,       \* upstream requests sent so far
    lastRet,        \* the call that ended last: who, what, how
    \* ---- feature extraction (feature_standardizer.py, training_data.py) ----
    raw,            \* the raw player record handed to the extraction
    op,             \* the extraction function applied to it, with its target
    features,       \* what that function returned or raised
    \* ---- dataset builders (app/training/train_models.py, lines 42-191) ----
    dpc,            \* position of the dataset builder being run
    baseRows,       \* rows of the base dataset read by read_csv
    predRows,       \* rows of the frame prepare_prediction_dataset returns
    num_pairs,      \* the argument num_pairs of prepare_transfer_dataset
    pending,        \* positions groupby('position') has still to yield
    quota,          \* position_pairs of the position being paired
    players,        \* the sample drawn for that position (line 126)
    pairIdx,        \* the loop variable i of line 129
    transfer_rows,  \* the list transfer_rows (line 112)
    emitted,        \* per finished position: its quota and its pairs
    \* ---- training tasks (app/training/train_models.py, lines 194-312) ----
    tpc,            \* position of the training pipeline
    dirIdx,         \* index into the positions of line 210
    posDirs,        \* what each position directory was found to hold
    mainDir,        \* what the directory main/ holds
    trained,        \* tasks whose models were trained and saved
    skipped,        \* tasks skipped with a warning
    raisedBy,       \* the task an exception left from ("" without one)
    \* ---- the directory main/ over runs of the pipeline ----
    fpc,            \* position of the run in progress
    runs,           \* runs of train_ml_models.py started so far
    clock,          \* the wall clock, in seconds
    mainDirFiles,   \* the files of main/: name, production time, content
    main_csv,       \* the file name selected at line 142
    backup_csv,     \* the file name built at line 208
    dataset_path,   \* what train_transfer_models selected: name and content
    \* ---- the backend loops of the training functions ----
    bpc,            \* position of the training run
    model_types,    \* the list model_types of line 67
    funIdx,         \* the training function main() is in
    bposIdx,        \* index into the positions of line 210
    typeIdx,        \* index into all_types
    callLog,        \* the loop iterations so far: task, backend, outcome
    position_metrics,\* backends recorded by the loop in progress
    metrics,        \* the dict metrics of train_position_specific_models
    returned,       \* the metrics main() has received
    skippedTasks,   \* tasks passed over for want of a dataset
    \* ---- multi-season history (app/utils/fpl_data.py, lines 223-260) ----
    hpc,            \* position of get_player_with_history_all_seasons
    hplayer_id,     \* its argument player_id
    season_files,   \* the files glob lists, in its order
    fileIdx,        \* index of the file the loop of line 239 is at
    all_history,    \* the list all_history (line 237)
    hfound,         \* the flag found (line 238)
    history_result, \* the history of the result, and where it came from
    \* ---- fixtures (app/utils/fpl_data.py, lines 385-489) ----
    fixtures_data,  \* data_cache.fixtures_data: the cached list of dicts
    fixtures_upstream,\* the fixtures list as the FPL API sent it
    fcall,          \* per task: its call, the list it holds, its result
    fixtureCalls    \* calls started so far

orchVars == <<pc, exitFrom, mainFile, backupFile, posIdx, tierIdx, broke,
              predictors, probeLog, loadedTier, warned, df, pred_points,
              errorRows, transferOutcome>>
cacheVars == <<now, ticks, upstream, updates, cache, task, started, requests,
               lastRet>>
featVars == <<raw, op, features>>
dataVars == <<dpc, baseRows, predRows, num_pairs, pending, quota, players,
              pairIdx, transfer_rows, emitted>>
taskVars == <<tpc, dirIdx, posDirs, mainDir, trained, skipped, raisedBy>>
fileVars == <<fpc, runs, clock, mainDirFiles, main_csv, backup_csv,
              dataset_path>>
backendVars == <<bpc, model_types, funIdx, bposIdx, typeIdx, callLog,
                 position_metrics, metrics, returned, skippedTasks>>
historyVars == <<hpc, hplayer_id, season_files, fileIdx, all_history, hfound,
                 history_result>>
fixtureVars == <<fixtures_data, fixtures_upstream, fcall, fixtureCalls>>
vars == <<orchVars, cacheVars, featVars, dataVars, taskVars, fileVars,
          backendVars, historyVars, fixtureVars>>

\* What the actions of one part leave unchanged: the other parts.
otherThanOrch == <<cacheVars, featVars, dataVars, taskVars, fileVars,
    backendVars, historyVars,
    fixtureVars>>
otherThanCache == <<orchVars, featVars, dataVars, taskVars, fileVars,
    backendVars, historyVars,
    fixtureVars>>
otherThanFeat == <<orchVars, cacheVars, dataVars, taskVars, fileVars,
    backendVars, historyVars,
    fixtureVars>>
otherThanData == <<orchVars, cacheVars, featVars, taskVars, fileVars,
    backendVars, historyVars,
    fixtureVars>>
otherThanTasks == <<orchVars, cacheVars, featVars, dataVars, fileVars,
    backendVars, historyVars,
    fixtureVars>>
otherThanFiles == <<orchVars, cacheVars, featVars, dataVars, taskVars,
    backendVars, historyVars,
    fixtureVars>>
otherThanBackends == <<orchVars, cacheVars, featVars, dataVars, taskVars,
    fileVars, historyVars,
    fixtureVars>>
otherThanHistory == <<orchVars, cacheVars, featVars, dataVars, taskVars,
    fileVars, backendVars,
    fixtureVars>>
otherThanFixtures == <<orchVars, cacheVars, featVars, dataVars, taskVars,
    fileVars, backendVars, historyVars>>

----------------------------------------------------------------------------
(* Bounds *)

\* positions resolved and predicted for: the first NumPositions of AllPositions
NumPositions == 2
\* rows of the main dataset frame
MaxRows == 2
\* calls of the cached getters, clock advances, upstream data changes
MaxCalls == 2
MaxTicks == 1
MaxUpdates == 1
\* gameweek entries in a raw record's history
MaxHistory == 3
\* rows of a base dataset handed to prepare_prediction_dataset
MaxPredRows == 1
\* rows of a base dataset handed to prepare_transfer_dataset
MaxBaseRows == 3
\* runs of train_ml_models.py on one data directory
MaxRuns == 2
\* season files in app/data/
MaxSeasonFiles == 3
\* calls of get_team_fixtures and get_player_fixture_difficulty
MaxFixtureCalls == 3

----------------------------------------------------------------------------
(* Orchestrator: constants of main() *)

tier_priority == <<"stacking", "elite", "premium", "basic">>
AllPositions == <<"gk", "def", "mid", "fwd">>
positions == SubSeq(AllPositions, 1, NumPositions)
PositionSet == {positions[i] : i \in 1..Len(positions)}
\* str(row['position']).lower() of a row: a resolved position or anything else
RowPositions == PositionSet \cup {"other"}

NoPredictor == [tier |-> "none", loaded |-> FALSE]

\* What os.path.exists finds for a tier: stacking has no scaler file.
ArtifactStates(tier) ==
    IF tier = "stacking" THEN {"absent", "present"}
    ELSE {"absent", "no_scaler", "present"}

----------------------------------------------------------------------------
(* Orchestrator: the training steps and the main dataset, lines 109-150 *)

\* `await train_position_specific_models(...)`, lines 112-116: returns its
\* metrics or raises out of main().
TrainPositionSpecificModels(raises) ==
    /\ pc = "train_positions"
    /\ IF raises
       THEN pc' = "raised" /\ exitFrom' = "train_positions"
       ELSE pc' = "train_captain" /\ UNCHANGED exitFrom
    /\ UNCHANGED <<mainFile, backupFile, posIdx, tierIdx, broke, predictors,
                   probeLog, loadedTier, warned, df, pred_points, errorRows,
                   transferOutcome>>
    /\ UNCHANGED otherThanOrch

\* `await train_captain_models(...)`, lines 121-125
TrainCaptainModels(raises) ==
    /\ pc = "train_captain"
    /\ IF raises
       THEN pc' = "raised" /\ exitFrom' = "train_captain"
       ELSE pc' = "select_main" /\ UNCHANGED exitFrom
    /\ UNCHANGED <<mainFile, backupFile, posIdx, tierIdx, broke, predictors,
                   probeLog, loadedTier, warned, df, pred_points, errorRows,
                   transferOutcome>>
    /\ UNCHANGED otherThanOrch

\* What lines 135-150 can find in main/: no CSV file, a file read_csv cannot
\* read, an empty frame, or a usable dataset.
MainDirStates == {"no_csv", "unreadable", "empty", "ok"}

\* Lines 135-150: select the latest main CSV and read it; each of the three
\* failures logs an error and returns from main().
SelectMainDataset(found) ==
    /\ pc = "select_main"
    /\ IF found = "ok"
       THEN pc' = "resolve" /\ UNCHANGED exitFrom
       ELSE pc' = "aborted" /\ exitFrom' = "select_main"
    /\ mainFile' = IF found = "no_csv" THEN "absent" ELSE "original"
    /\ UNCHANGED <<backupFile, posIdx, tierIdx, broke, predictors, probeLog,
                   loadedTier, warned, df, pred_points, errorRows,
                   transferOutcome>>
    /\ UNCHANGED otherThanOrch

----------------------------------------------------------------------------
(* Orchestrator: the tiered loader, lines 152-176 *)

\* os.path.exists(model_path) [and os.path.exists(scaler_path)], lines 163, 170
ArtifactExists(art) == art = "present"

\* `if predictors[pos].load(): break`, lines 165-166 and 172-173
LoadNeverBreaks(ok) == FALSE
LoadBreaks(ok) == ok

\* The tier whose load() returned True in a probe log, "none" without one.
RECURSIVE FirstLoaded(_)
FirstLoaded(log) ==
    IF log = <<>> THEN "none"
    ELSE IF Head(log).load = "ok" THEN Head(log).tier
    ELSE FirstLoaded(Tail(log))

InnerLoopDone == broke \/ tierIdx > Len(tier_priority)

\* One iteration of `for tier in tier_priority` for positions[posIdx]:
\* art is what the file system holds for the tier, ok what load() returns.
TryTier(art, ok) ==
    /\ pc = "resolve"
    /\ posIdx <= Len(positions)
    /\ ~InnerLoopDone
    /\ art \in ArtifactStates(tier_priority[tierIdx])
    /\ LET pos  == positions[posIdx]
           tier == tier_priority[tierIdx]
       IN  IF ArtifactExists(art)
           THEN /\ predictors' = [predictors EXCEPT
                                    ![pos] = [tier |-> tier, loaded |-> ok]]
                /\ probeLog' = Append(probeLog,
                       [tier |-> tier, art |-> art,
                        load |-> IF ok THEN "ok" ELSE "failed"])
                /\ broke' = LoadBreaks(ok)
                /\ tierIdx' = IF LoadBreaks(ok) THEN tierIdx ELSE tierIdx + 1
           ELSE /\ ok = FALSE
                /\ probeLog' = Append(probeLog,
                       [tier |-> tier, art |-> art, load |-> "not_attempted"])
                /\ tierIdx' = tierIdx + 1
                /\ UNCHANGED <<predictors, broke>>
    /\ UNCHANGED <<pc, exitFrom, mainFile, backupFile, posIdx, loadedTier,
                   warned, df, pred_points, errorRows, transferOutcome>>
    /\ UNCHANGED otherThanOrch

\* `if pos not in predictors: logger.warning(...)`, lines 174-175
NotInPredictors(pos) == predictors[pos] = NoPredictor

\* After the inner loop: the warning of lines 174-175, then the next position;
\* after the last position the prediction loop starts (line 178).
FinishPosition ==
    /\ pc = "resolve"
    /\ posIdx <= Len(positions)
    /\ InnerLoopDone
    /\ LET pos == positions[posIdx]
       IN  /\ warned' = IF NotInPredictors(pos) THEN warned \cup {pos} ELSE warned
           /\ loadedTier' = [loadedTier EXCEPT ![pos] = FirstLoaded(probeLog)]
    /\ posIdx' = posIdx + 1
    /\ tierIdx' = 1
    /\ broke' = FALSE
    /\ probeLog' = <<>>
    /\ pc' = IF posIdx = Len(positions) THEN "predict" ELSE "resolve"
    /\ UNCHANGED <<exitFrom, mainFile, backupFile, predictors, df, pred_points,
                   errorRows, transferOutcome>>
    /\ UNCHANGED otherThanOrch

----------------------------------------------------------------------------
(* Orchestrator: prediction injection, lines 178-204 *)

\* predictors.get(pos), line 183
PredictorFor(rpos) ==
    IF rpos \in PositionSet THEN predictors[rpos] ELSE NoPredictor

\* bool(predictor.feature_names), line 187.  A loaded artifact carries the
\* feature names it was trained with; what a predictor whose load() failed
\* holds is left open (names).
FeatureNames(predictor, names) ==
    IF predictor.loaded THEN TRUE ELSE names

\* The value appended for row i: the model's prediction or the row's own
\* points_per_game (lines 196-202).
PpgOfRow(i) == [src |-> "ppg", row |-> i, tier |-> "none"]
Predicted(i, tier) == [src |-> "model", row |-> i, tier |-> tier]

\* One iteration of `for idx, (row_idx, row) in enumerate(df.iterrows())`:
\* rpos is the row's position, names and raises what the predictor does.
PredictRow(rpos, names, raises) ==
    /\ pc = "predict"
    /\ Len(df) < MaxRows
    /\ LET i == Len(df) + 1
           predictor == PredictorFor(rpos)
           usable == predictor # NoPredictor /\ FeatureNames(predictor, names)
       IN  /\ df' = Append(df, rpos)
           /\ IF usable
              THEN IF raises
                   THEN /\ pred_points' = Append(pred_points, PpgOfRow(i))
                        /\ errorRows' = errorRows \cup {i}
                   ELSE /\ pred_points' = Append(pred_points,
                                                 Predicted(i, predictor.tier))
                        /\ UNCHANGED errorRows
              ELSE /\ raises = FALSE
                   /\ pred_points' = Append(pred_points, PpgOfRow(i))
                   /\ UNCHANGED errorRows
           /\ (predictor = NoPredictor \/ predictor.loaded) => names = FALSE
    /\ UNCHANGED <<pc, exitFrom, mainFile, backupFile, posIdx, tierIdx, broke,
                   predictors, probeLog, loadedTier, warned, transferOutcome>>
    /\ UNCHANGED otherThanOrch

\* `df['next_gw_points'] = pred_points`, line 203: the frame (non-empty by
\* line 148) is exhausted.  predictors is not read after the loop.
AssignColumn ==
    /\ pc = "predict"
    /\ Len(df) >= 1
    /\ pc' = "backup"
    /\ predictors' = [p \in PositionSet |-> NoPredictor]
    /\ loadedTier' = [p \in PositionSet |-> "none"]
    /\ UNCHANGED <<exitFrom, mainFile, backupFile, posIdx, tierIdx, broke,
                   probeLog, warned, df, pred_points, errorRows,
                   transferOutcome>>
    /\ UNCHANGED otherThanOrch

----------------------------------------------------------------------------
(* Orchestrator: backup, overwrite, transfer training, restore: 206-223 *)

\* `shutil.copy2(main_csv, backup_csv)`, line 209: the copy holds what the
\* main file holds, or the copy fails (left: no file, or part of one) and the
\* exception leaves main().
BackupMain(left) ==
    /\ pc = "backup"
    /\ IF left = "copied"
       THEN /\ backupFile' = mainFile
            /\ pc' = "write"
            /\ UNCHANGED exitFrom
       ELSE /\ backupFile' = left
            /\ pc' = "raised"
            /\ exitFrom' = "backup"
    /\ UNCHANGED <<mainFile, posIdx, tierIdx, broke, predictors, probeLog,
                   loadedTier, warned, df, pred_points, errorRows,
                   transferOutcome>>
    /\ UNCHANGED otherThanOrch

\* The overwrite of line 210 left out: main() goes on to the transfer step
\* with the main file as it was.
WriteLeftOut(left) ==
    /\ pc = "write"
    /\ left = "augmented"
    /\ pc' = "train_transfer"
    /\ df' = <<>>
    /\ pred_points' = <<>>
    /\ UNCHANGED <<exitFrom, mainFile, backupFile, posIdx, tierIdx, broke,
                   predictors, probeLog, loadedTier, warned, errorRows,
                   transferOutcome>>
    /\ UNCHANGED otherThanOrch

\* `df.to_csv(main_csv, index=False)`, line 210, before the try of line 212:
\* the file holds the augmented frame, or the write fails (left: the file was
\* not opened, or was truncated and written in part) and the exception leaves
\* main() without entering the try.  The frame is not read afterwards.
WriteAugmented(left) ==
    /\ pc = "write"
    /\ mainFile' = left
    /\ IF left = "augmented"
       THEN pc' = "train_transfer" /\ UNCHANGED exitFrom
       ELSE pc' = "raised" /\ exitFrom' = "write"
    /\ df' = <<>>
    /\ pred_points' = <<>>
    /\ UNCHANGED <<backupFile, posIdx, tierIdx, broke, predictors, probeLog,
                   loadedTier, warned, errorRows, transferOutcome>>
    /\ UNCHANGED otherThanOrch

\* `await train_transfer_models(...)` inside the try, lines 212-220: it reads
\* the main directory and writes model files only; it returns or raises.
TrainTransferModels(raises) ==
    /\ pc = "train_transfer"
    /\ transferOutcome' = IF raises THEN "raised" ELSE "returned"
    /\ pc' = "restore"
    /\ UNCHANGED <<exitFrom, mainFile, backupFile, posIdx, tierIdx, broke,
                   predictors, probeLog, loadedTier, warned, df, pred_points,
                   errorRows>>
    /\ UNCHANGED otherThanOrch

\* A restore placed after the try block instead of in its finally clause.
RestoreAfterTry ==
    /\ pc = "restore"
    /\ IF transferOutcome = "raised"
       THEN /\ pc' = "raised"
            /\ exitFrom' = "train_transfer"
            /\ UNCHANGED <<mainFile, backupFile>>
       ELSE /\ mainFile' = backupFile
            /\ backupFile' = "absent"
            /\ pc' = "done"
            /\ UNCHANGED exitFrom
    /\ UNCHANGED <<posIdx, tierIdx, broke, predictors, probeLog, loadedTier,
                   warned, df, pred_points, errorRows, transferOutcome>>
    /\ UNCHANGED otherThanOrch

\* A restore that copies the backup over the main file and leaves the backup
\* in place.
RestoreByCopy ==
    /\ pc = "restore"
    /\ mainFile' = backupFile
    /\ IF transferOutcome = "raised"
       THEN pc' = "raised" /\ exitFrom' = "train_transfer"
       ELSE pc' = "done" /\ UNCHANGED exitFrom
    /\ UNCHANGED <<backupFile, posIdx, tierIdx, broke, predictors, probeLog,
                   loadedTier, warned, df, pred_points, errorRows,
                   transferOutcome>>
    /\ UNCHANGED otherThanOrch

\* `finally: shutil.move(backup_csv, main_csv)`, lines 221-223: the backup
\* replaces the main file; then the exception, if any, leaves main().
RestoreMain ==
    /\ pc = "restore"
    /\ mainFile' = backupFile
    /\ backupFile' = "absent"
    /\ IF transferOutcome = "raised"
       THEN pc' = "raised" /\ exitFrom' = "train_transfer"
       ELSE pc' = "done" /\ UNCHANGED exitFrom
    /\ UNCHANGED <<posIdx, tierIdx, broke, predictors, probeLog, loadedTier,
                   warned, df, pred_points, errorRows, transferOutcome>>
    /\ UNCHANGED otherThanOrch

OrchNext ==
    \/ \E raises \in BOOLEAN : TrainPositionSpecificModels(raises)
    \/ \E raises \in BOOLEAN : TrainCaptainModels(raises)
    \/ \E found \in MainDirStates : SelectMainDataset(found)
    \/ \E art \in {"absent", "no_scaler", "present"}, ok \in BOOLEAN :
          TryTier(art, ok)
    \/ FinishPosition
    \/ \E rpos \in RowPositions, names \in BOOLEAN, raises \in BOOLEAN :
          PredictRow(rpos, names, raises)
    \/ AssignColumn
    \/ \E left \in {"copied", "absent", "partial"} : BackupMain(left)
    \/ \E left \in {"augmented", "original", "partial"} : WriteAugmented(left)
    \/ \E raises \in BOOLEAN : TrainTransferModels(raises)
    \/ RestoreMain

OrchInit ==
    /\ pc = "train_positions"
    /\ exitFrom = ""
    /\ mainFile = "original"
    /\ backupFile = "absent"
    /\ posIdx = 1
    /\ tierIdx = 1
    /\ broke = FALSE
    /\ predictors = [p \in PositionSet |-> NoPredictor]
    /\ probeLog = <<>>
    /\ loadedTier = [p \in PositionSet |-> "none"]
    /\ warned = {}
    /\ df = <<>>
    /\ pred_points = <<>>
    /\ errorRows = {}
    /\ transferOutcome = "none"

----------------------------------------------------------------------------
(* Ingestion cache: app/utils/fpl_data.py *)

\* Cache expiration time (in seconds)
CACHE_EXPIRY == 3600

\* Player ids asked for, and the two asyncio tasks that call the getters.
PlayerIds == {1, 2}
Callers == {"t1", "t2"}

Keys == {<<"bootstrap", 0>>, <<"fixtures", 0>>}
            \cup {<<"player", id>> : id \in PlayerIds}

\* A payload is the upstream data of one version; it may be empty ({} or []).
\* NoneData stands for None (bootstrap_data, fixtures_data) and for a player
\* id that is not a key of player_details_cache.
NoneData == [v |-> 0, empty |-> FALSE]
NoTime == -1
NoEntry == [data |-> NoneData, ts |-> NoTime]
Idle == [pc |-> "idle", key |-> <<"bootstrap", 0>>, data |-> NoneData,
         sent |-> 0, overlap |-> FALSE]

\* Python truthiness of a cached payload: None and empty containers are falsy.
Truthy(d) == d # NoneData /\ ~d.empty

\* is_bootstrap_expired / is_fixtures_expired / is_player_details_expired,
\* lines 43-59
IsExpired(k) ==
    IF cache[k].ts = NoTime THEN TRUE
    ELSE (now - cache[k].ts) > CACHE_EXPIRY

\* The test before `return data_cache.bootstrap_data`, line 76 (fixtures: 107)
PayloadTruthyAndNotExpired(k) == Truthy(cache[k].data) /\ ~IsExpired(k)

\* The test of lines 141-142: `player_id in data_cache.player_details_cache`
PlayerCachedAndNotExpired(k) == cache[k].data # NoneData /\ ~IsExpired(k)

UseCached(k) ==
    IF k[1] = "player" THEN PlayerCachedAndNotExpired(k)
    ELSE PayloadTruthyAndNotExpired(k)

\* `data_cache.X_data = response.json(); data_cache.X_timestamp =
\* datetime.now()`, lines 87-88, 118-119, 153-154: no await in between.
StoreAllPlayerTimestamps(k, payload) ==
    [q \in Keys |->
        IF q = k THEN [data |-> payload, ts |-> now]
        ELSE IF q[1] = "player" /\ k[1] = "player" /\ cache[q].ts # NoTime
             THEN [cache[q] EXCEPT !.ts = now]
             ELSE cache[q]]
\* A store of the payload that leaves the timestamp as it was
StorePayloadOnly(k, payload) ==
    [cache EXCEPT ![k] = [data |-> payload, ts |-> cache[k].ts]]
StoreEntry(k, payload) ==
    [cache EXCEPT ![k] = [data |-> payload, ts |-> now]]

\* The except branch, lines 92-94, 123-125, 157-159 (and an HTTPStatusError,
\* which no except clause catches): the cache is not written.
CacheInvalidatedOnError(k) == [cache EXCEPT ![k] = NoEntry]
CacheOnError(k) == cache

\* The tasks between their miss on resource k and their return (overlap
\* records that two calls of the same getter were in this window together).
InFlightOn(k) == {d \in Callers : task[d].pc # "idle" /\ task[d].key = k}

\* A getter is called by task c for resource k (get_bootstrap_data,
\* get_fixtures_data, get_player_detail_data): it returns the cached payload,
\* or sends one request and awaits the response.
Call(c, k) ==
    /\ task[c].pc = "idle"
    /\ started < MaxCalls
    /\ started' = started + 1
    /\ IF UseCached(k)
       THEN /\ lastRet' = [who |-> c, key |-> k, how |-> "hit",
                           data |-> cache[k].data, sent |-> 0]
            /\ UNCHANGED <<task, requests>>
       ELSE /\ task' = [d \in Callers |->
                          IF d = c
                          THEN [pc |-> "awaiting", key |-> k, data |-> NoneData,
                                sent |-> 1, overlap |-> InFlightOn(k) # {}]
                          ELSE IF d \in InFlightOn(k)
                               THEN [task[d] EXCEPT !.overlap = TRUE]
                               ELSE task[d]]
            /\ requests' = requests + 1
            /\ UNCHANGED lastRet
    /\ UNCHANGED <<now, ticks, upstream, updates, cache>>
    /\ UNCHANGED otherThanCache

\* The FPL API answers the request of task c with its data of this moment.
Respond(c) ==
    /\ task[c].pc = "awaiting"
    /\ task' = [task EXCEPT ![c].pc = "responded", ![c].data = upstream]
    /\ UNCHANGED <<now, ticks, upstream, updates, cache, started, requests,
                   lastRet>>
    /\ UNCHANGED otherThanCache

\* Task c resumes after `await client.get(...)` with a good response: lines
\* 85-91 (116-122, 150-156) store the payload and return it.
Resume(c) ==
    /\ task[c].pc = "responded"
    /\ cache' = StoreEntry(task[c].key, task[c].data)
    /\ lastRet' = [who |-> c, key |-> task[c].key, how |-> "fetched",
                   data |-> task[c].data, sent |-> task[c].sent]
    /\ task' = [task EXCEPT ![c] = Idle]
    /\ UNCHANGED <<now, ticks, upstream, updates, started, requests>>
    /\ UNCHANGED otherThanCache

\* The request of task c fails: httpx.RequestError is caught, logged and
\* raised again as Exception (lines 92-94, 123-125, 157-159); the
\* httpx.HTTPStatusError of raise_for_status and a JSON error of
\* response.json() leave the getter as they are.  Nothing is stored.
FetchFails(c) ==
    /\ task[c].pc = "awaiting"
    /\ cache' = CacheOnError(task[c].key)
    /\ lastRet' = [who |-> c, key |-> task[c].key, how |-> "error",
                   data |-> NoneData, sent |-> task[c].sent]
    /\ task' = [task EXCEPT ![c] = Idle]
    /\ UNCHANGED <<now, ticks, upstream, updates, started, requests>>
    /\ UNCHANGED otherThanCache

\* Time passes: exactly the expiry period, or a second more.
Tick(step) ==
    /\ ticks < MaxTicks
    /\ ticks' = ticks + 1
    /\ now' = now + step
    /\ UNCHANGED <<upstream, updates, cache, task, started, requests, lastRet>>
    /\ UNCHANGED otherThanCache

\* The FPL API's data changes to a new version, empty or not.
UpstreamChanges(empty) ==
    /\ updates < MaxUpdates
    /\ updates' = updates + 1
    /\ upstream' = [v |-> upstream.v + 1, empty |-> empty]
    /\ UNCHANGED <<now, ticks, cache, task, started, requests, lastRet>>
    /\ UNCHANGED otherThanCache

CacheNext ==
    \/ \E c \in Callers, k \in Keys : Call(c, k)
    \/ \E c \in Callers : Respond(c)
    \/ \E c \in Callers : Resume(c)
    \/ \E c \in Callers : FetchFails(c)
    \/ \E step \in {CACHE_EXPIRY, CACHE_EXPIRY + 1} : Tick(step)
    \/ \E empty \in BOOLEAN : UpstreamChanges(empty)

\* data_cache = FPLDataCache(), lines 34-41 and 63
CacheInit ==
    /\ now = 0
    /\ ticks = 0
    /\ upstream = [v |-> 1, empty |-> FALSE]
    /\ updates = 0
    /\ cache = [k \in Keys |-> NoEntry]
    /\ task = [c \in Callers |-> Idle]
    /\ started = 0
    /\ requests = 0
    /\ lastRet = [who |-> "t1", key |-> <<"bootstrap", 0>>, how |-> "none",
                  data |-> NoneData, sent |-> 0]

----------------------------------------------------------------------------
(* Feature extraction: Python values *)

\* A Python value found in a raw record or put into a feature dict.  Numbers
\* are integers here; the inputs are chosen so that every quotient the code
\* forms is a whole number.
Num(n) == [k |-> "num", v |-> n]
\* float('nan')
NaN == [k |-> "nan", v |-> 0]
None == [k |-> "none", v |-> 0]
\* the key is not in the dict
Missing == [k |-> "missing", v |-> 0]
\* a string float() parses, such as "12.0"
Str(n) == [k |-> "str", v |-> n]
\* a string with a decimal comma, such as "12,0"
StrComma(n) == [k |-> "str_comma", v |-> n]
StrEmpty == [k |-> "str_empty", v |-> 0]
\* a string that is no number, such as "n/a"
StrBad == [k |-> "str_bad", v |-> 0]
\* a name, team or position text
Text == [k |-> "text", v |-> 0]
\* an exception raised while a value is computed
Raise(type) == [k |-> type, v |-> 0]

ExceptionTypes == {"TypeError", "ValueError", "AttributeError", "KeyError"}
IsExc(x) == x.k \in ExceptionTypes

\* isinstance(x, str)
IsStr(x) == x.k \in {"str", "str_comma", "str_empty", "str_bad", "text"}

\* bool(x)
Bool(x) ==
    CASE x.k = "num" -> x.v # 0
      [] x.k \in {"none", "str_empty", "missing"} -> FALSE
      [] OTHER -> TRUE

\* float(x)
Float(x) ==
    CASE x.k \in {"num", "nan"} -> x
      [] x.k = "str" -> Num(x.v)
      [] x.k \in {"str_comma", "str_empty", "str_bad", "text"} ->
             Raise("ValueError")
      [] x.k \in {"none", "missing"} -> Raise("TypeError")
      [] OTHER -> x

\* x.replace(',', '.')
ReplaceComma(x) ==
    CASE x.k = "str_comma" -> Str(x.v)
      [] IsStr(x) -> x
      [] IsExc(x) -> x
      [] OTHER -> Raise("AttributeError")

\* x / d for a positive number d
Divide(x, d) ==
    CASE x.k = "num" -> Num(x.v \div d)
      [] x.k = "nan" -> x
      [] IsExc(x) -> x
      [] OTHER -> Raise("TypeError")

\* (x / d) * m for a positive number d
DivideTimes(x, d, m) ==
    CASE x.k = "num" -> Num((x.v * m) \div d)
      [] x.k = "nan" -> x
      [] IsExc(x) -> x
      [] OTHER -> Raise("TypeError")

Max(a, b) == IF a >= b THEN a ELSE b
Min(a, b) == IF a <= b THEN a ELSE b

\* player_data.get(name, default)
Get(r, name, default) ==
    IF name \in DOMAIN r /\ r[name] # Missing THEN r[name] ELSE default

\* name in player_data
HasKey(r, name) == name \in DOMAIN r /\ r[name] # Missing

\* The exception that leaves a function whose steps, in evaluation order, gave
\* the values of steps: the first one raised, "none" without one.
RECURSIVE FirstExc(_)
FirstExc(steps) ==
    IF steps = <<>> THEN "none"
    ELSE IF IsExc(Head(steps)) THEN Head(steps).k
    ELSE FirstExc(Tail(steps))

\* The names of a list of names
NameSet(names) == {names[i] : i \in 1..Len(names)}

\* A feature dict with its keys in insertion order, or the exception raised
\* instead of returning one; vals gives the value computed for each key.
Returned(names, vals) ==
    LET exc == FirstExc([i \in 1..Len(names) |-> vals[names[i]]])
    IN  IF exc = "none"
        THEN [exc |-> "none", names |-> names, vals |-> vals]
        ELSE [exc |-> exc, names |-> <<>>,
              vals |-> [n \in {} |-> Num(0)]]
Raised(exc) == [exc |-> exc, names |-> <<>>, vals |-> [n \in {} |-> Num(0)]]

----------------------------------------------------------------------------
(* Feature extraction: feature_standardizer.py *)

TRAINING_FEATURE_NAMES ==
    <<"price", "form", "recent_form", "points_per_game", "points_per_90",
      "minutes", "goals_scored", "assists", "clean_sheets", "goals_conceded",
      "own_goals", "penalties_saved", "penalties_missed", "yellow_cards",
      "red_cards", "saves", "bonus", "bps", "influence", "creativity",
      "threat", "ict_index", "xG", "xA", "ownership_percentage",
      "avg_fixture_difficulty", "team_strength", "team_strength_attack_home",
      "team_strength_attack_away", "team_strength_defence_home",
      "team_strength_defence_away">>

\* games_played = max(1, minutes // 60), line 46
InferenceGamesPlayed(r) == Max(1, Get(r, "minutes", Num(0)).v \div 60)

\* Lines 55-62: form from a string or a number
InferenceForm(r) ==
    LET form_raw == Get(r, "form", Num(0))
    IN  IF IsStr(form_raw)
        THEN IF ~Bool(form_raw) THEN Num(0)
             ELSE IF Float(form_raw) = Raise("ValueError") THEN Num(0)
             ELSE Float(form_raw)
        ELSE IF form_raw # None THEN Float(form_raw) ELSE Num(0)

\* Lines 68-73: price, overridden by now_cost / 10.0 when that key is present
InferencePrice(r) ==
    LET price == Get(r, "price", Num(0))
    IN  IF HasKey(r, "now_cost") THEN Divide(r["now_cost"], 10)
        ELSE IF price = None THEN Num(0) ELSE price

\* Lines 76-83: ownership from a string or a number
InferenceOwnership(r) ==
    LET ownership_raw == Get(r, "selected_by_percent", Str(0))
    IN  IF IsStr(ownership_raw)
        THEN IF Float(ReplaceComma(ownership_raw)) = Raise("ValueError")
             THEN Num(0)
             ELSE Float(ReplaceComma(ownership_raw))
        ELSE IF ownership_raw # None THEN Float(ownership_raw) ELSE Num(0)

\* The value the dict literal of lines 98-130 gives to a field; the local
\* variables of lines 41-95 are computed before it.
InferenceValue(r, name) ==
    LET total_points == Get(r, "total_points", Num(0))
        minutes == Get(r, "minutes", Num(0))
        games_played == InferenceGamesPlayed(r)
    IN  CASE name = "price" -> Float(InferencePrice(r))
          [] name = "form" -> Float(InferenceForm(r))
          [] name = "recent_form" -> Float(InferenceForm(r))
          [] name = "points_per_game" ->
                 IF games_played > 0
                 THEN Float(Divide(total_points, Max(1, games_played)))
                 ELSE Num(0)
          [] name = "points_per_90" ->
                 IF minutes.v > 0
                 THEN Float(DivideTimes(total_points, Max(1, minutes.v), 90))
                 ELSE Num(0)
          [] name = "xG" ->
                 IF games_played > 0
                 THEN Float(Divide(Get(r, "goals_scored", Num(0)),
                                   Max(1, games_played)))
                 ELSE Num(0)
          [] name = "xA" ->
                 IF games_played > 0
                 THEN Float(Divide(Get(r, "assists", Num(0)),
                                   Max(1, games_played)))
                 ELSE Num(0)
          [] name = "ownership_percentage" -> Float(InferenceOwnership(r))
          [] name = "avg_fixture_difficulty" ->
                 Float(Get(r, "avg_fixture_difficulty", Num(3)))
          [] name = "team_strength" -> Float(Get(r, "team_strength", Num(100)))
          [] OTHER -> Float(Get(r, name, Num(0)))

\* The order in which lines 41-130 compute: the derived values of lines 49-95
\* first, then the entries of the dict literal.
InferenceSteps ==
    <<"points_per_game", "points_per_90", "form", "price",
      "ownership_percentage", "xG", "xA">> \o TRAINING_FEATURE_NAMES

convert_player_to_features(r) ==
    LET exc == FirstExc([i \in 1..Len(InferenceSteps) |->
                            InferenceValue(r, InferenceSteps[i])])
    IN  IF exc = "none"
        THEN Returned(TRAINING_FEATURE_NAMES,
                      [n \in NameSet(TRAINING_FEATURE_NAMES) |->
                          InferenceValue(r, n)])
        ELSE Raised(exc)

\* df.reindex(columns=target, fill_value=0.0), lines 160 and 206, and the loop
\* of lines 169-172: the target's names in its order, 0.0 for a name the
\* extracted features lack.
Reindex(f, target) ==
    [exc |-> "none", names |-> target,
     vals |-> [n \in NameSet(target) |->
                  IF n \in DOMAIN f.vals THEN f.vals[n] ELSE Num(0)]]

\* Lines 149-174, for one record or a list holding one record:
\* `if model_feature_names:` is false for None and for an empty list.
prepare_features_for_model(r, model_feature_names) ==
    LET f == convert_player_to_features(r)
    IN  IF f.exc # "none" THEN f
        ELSE IF model_feature_names # <<>>
             THEN Reindex(f, model_feature_names)
             ELSE f

\* Lines 191-208, for a list holding one record: a record whose conversion
\* raises gets the default features, and the frame is always reindexed.
standardize_player_features_for_prediction(r, model_feature_names) ==
    LET f == convert_player_to_features(r)
        default_features ==
            Returned(TRAINING_FEATURE_NAMES,
                     [n \in NameSet(TRAINING_FEATURE_NAMES) |-> Num(0)])
    IN  Reindex(IF f.exc # "none" THEN default_features ELSE f,
                model_feature_names)

----------------------------------------------------------------------------
(* Feature extraction: process_player_features, training_data.py 75-162 *)

\* player_data[name]
Item(r, name) == IF HasKey(r, name) THEN r[name] ELSE Raise("KeyError")

\* Line 88: the history entries with minutes > 0
TrainingGamesPlayed(r) ==
    Cardinality({i \in 1..Len(r.history) : r.history[i].minutes > 0})

RECURSIVE SumPoints(_)
SumPoints(games) ==
    IF games = <<>> THEN 0
    ELSE Head(games).total_points + SumPoints(Tail(games))

\* history[-3:] if len(history) >= 3 else history, line 102
RecentHistory(history) ==
    IF Len(history) >= 3
    THEN SubSeq(history, Len(history) - 2, Len(history))
    ELSE history

\* Lines 101-104
TrainingRecentForm(r) ==
    LET recent_history == RecentHistory(r.history)
    IN  IF recent_history # <<>>
        THEN Num(SumPoints(recent_history) \div Len(recent_history))
        ELSE Num(0)

\* Lines 97-98
TrainingForm(r) ==
    LET raw_form == Get(r, "form", Str(0))
    IN  IF Bool(raw_form) /\ raw_form # StrEmpty THEN Float(raw_form)
        ELSE Num(0)

\* Fields the dict literal of lines 124-160 copies with float(...)
FloatedFields == {"influence", "creativity", "threat", "ict_index"}

\* The value lines 86-160 give to a field of the training features
TrainingValue(r, name) ==
    LET minutes == Item(r, "minutes")
        total_points == Item(r, "total_points")
        games_played == TrainingGamesPlayed(r)
    IN  CASE name = "player_id" -> Item(r, "id")
          [] name \in {"name", "team", "position"} -> Text
          [] name = "price" -> Divide(Get(r, "now_cost", Num(0)), 10)
          [] name = "form" -> TrainingForm(r)
          [] name = "recent_form" -> TrainingRecentForm(r)
          [] name = "points_per_game" ->
                 IF games_played > 0
                 THEN Divide(total_points, Max(1, games_played))
                 ELSE Num(0)
          [] name = "points_per_90" ->
                 IF minutes.v > 0
                 THEN DivideTimes(total_points, Max(1, minutes.v), 90)
                 ELSE Num(0)
          [] name = "xG" ->
                 IF games_played > 0
                 THEN Divide(Get(r, "goals_scored", Num(0)),
                             Max(1, games_played))
                 ELSE Num(0)
          [] name = "xA" ->
                 IF games_played > 0
                 THEN Divide(Get(r, "assists", Num(0)), Max(1, games_played))
                 ELSE Num(0)
          [] name = "ownership_percentage" ->
                 Float(ReplaceComma(Get(r, "selected_by_percent", Str(0))))
          [] name = "avg_fixture_difficulty" ->
                 Get(r, "avg_fixture_difficulty", Num(3))
          [] name = "team_strength" ->
                 DivideTimes(Get(r, "team_strength", Num(1000)), 1000, 100)
          [] name \in FloatedFields -> Float(Get(r, name, Num(0)))
          [] OTHER -> Get(r, name, Num(0))

\* The keys of the dict of lines 124-160, in order
TrainingNames ==
    <<"player_id", "name", "team", "position">> \o TRAINING_FEATURE_NAMES

\* The order in which lines 86-160 compute
TrainingSteps ==
    <<"points_per_game", "points_per_90", "form", "recent_form", "xG", "xA",
      "ownership_percentage", "team_strength">> \o TrainingNames

process_player_features(r) ==
    LET exc == FirstExc([i \in 1..Len(TrainingSteps) |->
                            TrainingValue(r, TrainingSteps[i])])
    IN  IF exc = "none"
        THEN Returned(TrainingNames,
                      [n \in NameSet(TrainingNames) |-> TrainingValue(r, n)])
        ELSE Raised(exc)

----------------------------------------------------------------------------
(* Feature extraction: the records handed in and the calls *)

\* One gameweek entry of a record's history
HistoryEntries ==
    {[minutes |-> 0, total_points |-> 0], [minutes |-> 90, total_points |-> 6]}

RECURSIVE SeqsUpTo(_, _)
SeqsUpTo(S, n) ==
    IF n = 0 THEN {<<>>}
    ELSE LET shorter == SeqsUpTo(S, n - 1)
         IN  shorter \cup {Append(s, x) : s \in shorter, x \in S}

\* A record as get_player_extended_data builds it from well-formed API data.
TypicalRecord(total_points, minutes, history) ==
    [id |-> Num(1), total_points |-> Num(total_points),
     minutes |-> Num(minutes), form |-> Str(5), now_cost |-> Num(50),
     selected_by_percent |-> Str(12), team_strength |-> Missing,
     goals_scored |-> Num(2), history |-> history]

\* What a field can hold instead: missing, None, a number where a string is
\* usual, a string with a decimal comma, an empty or unparseable string, NaN.
FieldValues ==
    [form |-> {Missing, Str(5), StrEmpty, StrBad, None},
     now_cost |-> {Missing, Num(50)},
     selected_by_percent |-> {Missing, Str(12), StrComma(12), StrBad, Num(12)},
     team_strength |-> {Missing, Num(1200)},
     goals_scored |-> {Num(2), None, NaN}]

\* The raw records handed to the extraction: a typical record with one field
\* replaced.
RawRecords ==
    UNION {{[TypicalRecord(total_points, minutes, history) EXCEPT ![f] = x] :
               x \in FieldValues[f]} :
           f \in DOMAIN FieldValues, total_points \in {0, 12},
           minutes \in {0, 45, 180},
           history \in SeqsUpTo(HistoryEntries, MaxHistory)}

\* The model_feature_names handed in: the canonical schema, a reordered
\* subset, a list with an unknown name, a disjoint list, the empty list.
TargetLists ==
    {TRAINING_FEATURE_NAMES, <<"form", "price">>, <<"price", "unknown_a">>,
     <<"unknown_a">>, <<>>}

NoCall == [kind |-> "none", target |-> <<>>]
NotComputed == Raised("not_called")

\* A raw record arrives (training_data.py 214, or the caller of the
\* standardizer at inference).
LoadRecord(r) ==
    /\ op = NoCall
    /\ raw' = r
    /\ op' = [kind |-> "loaded", target |-> <<>>]
    /\ UNCHANGED features
    /\ UNCHANGED otherThanFeat

ConvertPlayerToFeatures ==
    /\ op.kind = "loaded"
    /\ features' = convert_player_to_features(raw)
    /\ op' = [kind |-> "convert", target |-> <<>>]
    /\ UNCHANGED raw
    /\ UNCHANGED otherThanFeat

ProcessPlayerFeatures ==
    /\ op.kind = "loaded"
    /\ features' = process_player_features(raw)
    /\ op' = [kind |-> "process", target |-> <<>>]
    /\ UNCHANGED raw
    /\ UNCHANGED otherThanFeat

\* asList: player_data is [raw] (lines 149-162) or raw itself (lines 163-174)
PrepareFeaturesForModel(target, asList) ==
    /\ op.kind = "loaded"
    /\ features' = prepare_features_for_model(raw, target)
    /\ op' = [kind |-> IF asList THEN "prepare_list" ELSE "prepare_one",
              target |-> target]
    /\ UNCHANGED raw
    /\ UNCHANGED otherThanFeat

StandardizePlayerFeaturesForPrediction(target) ==
    /\ op.kind = "loaded"
    /\ features' = standardize_player_features_for_prediction(raw, target)
    /\ op' = [kind |-> "standardize", target |-> target]
    /\ UNCHANGED raw
    /\ UNCHANGED otherThanFeat

FeatNext ==
    \/ op = NoCall /\ \E r \in RawRecords : LoadRecord(r)
    \/ ConvertPlayerToFeatures
    \/ ProcessPlayerFeatures
    \/ \E target \in TargetLists, asList \in BOOLEAN :
           PrepareFeaturesForModel(target, asList)
    \/ \E target \in TargetLists :
           StandardizePlayerFeaturesForPrediction(target)

NoRecord ==
    [id |-> Missing, total_points |-> Missing, minutes |-> Missing,
     form |-> Missing, now_cost |-> Missing, selected_by_percent |-> Missing,
     team_strength |-> Missing, goals_scored |-> Missing, history |-> <<>>]

FeatInit ==
    /\ raw = NoRecord
    /\ op = NoCall
    /\ features = NotComputed

----------------------------------------------------------------------------
(* Dataset builders: prepare_prediction_dataset, train_models.py 42-88 *)

\* Column values are floats in thousandths (5000 is 5.0) or NaN, the value
\* read_csv gives an empty cell.  Quotients are rounded down, which leaves
\* the sign tests of the clips exact.
AddF(a, b) == IF a.k = "nan" \/ b.k = "nan" THEN NaN ELSE Num(a.v + b.v)
SubF(a, b) == IF a.k = "nan" \/ b.k = "nan" THEN NaN ELSE Num(a.v - b.v)
\* a * (n / d) for a constant factor n / d
ScaleF(a, n, d) == IF a.k = "nan" THEN NaN ELSE Num((a.v * n) \div d)
MulF(a, b) ==
    IF a.k = "nan" \/ b.k = "nan" THEN NaN ELSE Num((a.v * b.v) \div 1000)

\* max(x, 0): Python's max keeps its first argument unless a later one is
\* greater, and no comparison with NaN is true.
MaxZeroLast(x) ==
    IF x.k = "nan" THEN x ELSE IF 0 > x.v THEN Num(0) ELSE x
\* max(0, x), lines 76 and 85
MaxZeroFirst(x) ==
    IF x.k = "num" /\ x.v > 0 THEN x ELSE Num(0)

\* Lines 65-76 for one row
NextGwPoints(row) ==
    LET baseline == row.points_per_game
        with_form == AddF(baseline,
                          ScaleF(SubF(row.form, row.points_per_game), 2, 10))
        with_fixtures ==
            SubF(with_form,
                 ScaleF(SubF(row.avg_fixture_difficulty, Num(2500)), 15, 100))
    IN  MaxZeroFirst(with_fixtures)

\* Lines 79-85 for one row; z is the row's draw of np.random.normal(0, 1)
CaptainPoints(next_gw_points, z) ==
    LET doubled == ScaleF(next_gw_points, 2, 1)
        variance == MulF(Num(z), ScaleF(next_gw_points, 3, 10))
    IN  MaxZeroFirst(AddF(doubled, variance))

\* The rows of a base dataset as far as lines 65-85 read them
PredictionInputs ==
    [points_per_game : {Num(-2000), Num(0), Num(5000), NaN},
     form : {Num(-3000), Num(8000), NaN},
     avg_fixture_difficulty : {Num(1000), Num(5000)}]

\* Draws of the standard normal, in thousandths
NoiseValues == {-7000, 0, 3000}

\* prepare_prediction_dataset on a base dataset of Len(rows) rows
PreparePredictionDataset(rows, noise) ==
    /\ dpc = "idle"
    /\ predRows' =
           [i \in 1..Len(rows) |->
               [points_per_game |-> rows[i].points_per_game,
                form |-> rows[i].form,
                avg_fixture_difficulty |-> rows[i].avg_fixture_difficulty,
                z |-> noise[i],
                next_gw_points |-> NextGwPoints(rows[i]),
                captain_points |->
                    CaptainPoints(NextGwPoints(rows[i]), noise[i])]]
    /\ dpc' = "predicted"
    /\ UNCHANGED <<baseRows, num_pairs, pending, quota, players, pairIdx,
                   transfer_rows, emitted>>
    /\ UNCHANGED otherThanData

----------------------------------------------------------------------------
(* Dataset builders: prepare_transfer_dataset, train_models.py 91-191 *)

\* Lines 116-121, in percent
position_weights ==
    ("GK" :> 10) @@ ("DEF" :> 35) @@ ("MID" :> 35) @@ ("FWD" :> 20)
\* position_weights.get(str(position), 0.25), line 123
WeightOf(position) ==
    IF position \in DOMAIN position_weights THEN position_weights[position]
    ELSE 25

\* int(num_pairs * weight), line 123
PositionPairs(n, position) == (n * WeightOf(position)) \div 100

\* The keys of df.groupby('position'), which come sorted
GroupOrder == <<"DEF", "FWD", "GK", "MID", "Unknown">>

\* The positions and player ids of the base datasets considered
BasePositions == {"DEF", "GK"}
BasePlayerIds == {1, 2}
BaseRowValues == [player_id : BasePlayerIds, position : BasePositions]
NumPairsValues == {10, 20}

\* The rows of a group
GroupRows(rows, position) ==
    {i \in 1..Len(rows) : rows[i].position = position}

RECURSIVE GroupKeys(_, _)
GroupKeys(rows, order) ==
    IF order = <<>> THEN <<>>
    ELSE IF GroupRows(rows, Head(order)) # {}
         THEN <<Head(order)>> \o GroupKeys(rows, Tail(order))
         ELSE GroupKeys(rows, Tail(order))

\* Lines 104-112: read the base dataset and group it by position
ReadTransferBase(rows, n) ==
    /\ dpc = "idle"
    /\ baseRows' = rows
    /\ num_pairs' = n
    /\ pending' = GroupKeys(rows, GroupOrder)
    /\ dpc' = "grouping"
    /\ UNCHANGED <<predRows, quota, players, pairIdx, transfer_rows, emitted>>
    /\ UNCHANGED otherThanData

\* Lines 113-126: the next group, its quota and its sample
\* group.sample(n=min(len(group), position_pairs * 2), replace=True)
SampleGroup(sample) ==
    /\ dpc = "grouping"
    /\ pending # <<>>
    /\ LET position == Head(pending)
           group == GroupRows(baseRows, position)
           position_pairs == PositionPairs(num_pairs, position)
           n == Min(Cardinality(group), position_pairs * 2)
       IN  /\ sample \in [1..n -> group]
           /\ quota' = position_pairs
           /\ players' = [i \in 1..n |-> baseRows[sample[i]]]
    /\ pairIdx' = 0
    /\ dpc' = "pairing"
    /\ UNCHANGED <<baseRows, predRows, num_pairs, pending, transfer_rows,
                   emitted>>
    /\ UNCHANGED otherThanData

\* range(0, min(len(players) - 1, position_pairs)), line 129
PairLoopEnd == Min(Len(players) - 1, quota)

\* if player_out['player_id'] == player_in['player_id']: continue, line 134
NeverSkips(player_out, player_in) == FALSE
SamePlayer(player_out, player_in) ==
    player_out.player_id = player_in.player_id

\* One iteration of the loop of lines 129-186
PairStep ==
    /\ dpc = "pairing"
    /\ pairIdx < PairLoopEnd
    /\ LET player_out == players[pairIdx + 1]
           player_in == players[pairIdx + 2]
       IN  transfer_rows' =
               IF SamePlayer(player_out, player_in) THEN transfer_rows
               ELSE Append(transfer_rows,
                           [player_in_id |-> player_in.player_id,
                            player_out_id |-> player_out.player_id,
                            position |-> Head(pending),
                            player_in_position |-> player_in.position,
                            player_out_position |-> player_out.position])
    /\ pairIdx' = pairIdx + 1
    /\ UNCHANGED <<dpc, baseRows, predRows, num_pairs, pending, quota,
                   players, emitted>>
    /\ UNCHANGED otherThanData

\* The pairs in transfer_rows for a position
PairsOf(rows, position) ==
    Cardinality({i \in 1..Len(rows) : rows[i].position = position})

\* The loop of line 129 is exhausted: on to the next group
FinishGroup ==
    /\ dpc = "pairing"
    /\ pairIdx >= PairLoopEnd
    /\ LET position == Head(pending)
           group == GroupRows(baseRows, position)
       IN  emitted' = Append(emitted,
               [position |-> position,
                quota |-> quota,
                distinct |-> Cardinality({baseRows[i].player_id : i \in group}),
                pairs |-> PairsOf(transfer_rows, position)])
    /\ pending' = Tail(pending)
    /\ players' = <<>>
    /\ pairIdx' = 0
    /\ quota' = 0
    /\ dpc' = "grouping"
    /\ UNCHANGED <<baseRows, predRows, num_pairs, transfer_rows>>
    /\ UNCHANGED otherThanData

\* Lines 188-191: transfer_df = pd.DataFrame(transfer_rows); return
ReturnTransferFrame ==
    /\ dpc = "grouping"
    /\ pending = <<>>
    /\ dpc' = "done"
    /\ UNCHANGED <<baseRows, predRows, num_pairs, pending, quota, players,
                   pairIdx, transfer_rows, emitted>>
    /\ UNCHANGED otherThanData

DataNext ==
    \/ /\ dpc = "idle"
       /\ \E rows \in SeqsUpTo(PredictionInputs, MaxPredRows) :
              \E noise \in [1..Len(rows) -> NoiseValues] :
                  PreparePredictionDataset(rows, noise)
    \/ /\ dpc = "idle"
       /\ \E rows \in SeqsUpTo(BaseRowValues, MaxBaseRows) :
              \E n \in NumPairsValues : ReadTransferBase(rows, n)
    \/ /\ dpc = "grouping"
       /\ pending # <<>>
       /\ \E sample \in [1..Min(Cardinality(GroupRows(baseRows, Head(pending))),
                               2 * PositionPairs(num_pairs, Head(pending)))
                          -> GroupRows(baseRows, Head(pending))] :
              SampleGroup(sample)
    \/ PairStep
    \/ FinishGroup
    \/ ReturnTransferFrame

DataInit ==
    /\ dpc = "idle"
    /\ baseRows = <<>>
    /\ predRows = <<>>
    /\ num_pairs = 0
    /\ pending = <<>>
    /\ quota = 0
    /\ players = <<>>
    /\ pairIdx = 0
    /\ transfer_rows = <<>>
    /\ emitted = <<>>

----------------------------------------------------------------------------
(* Training tasks: train_position_specific_models, train_captain_models and
   the main dataset selection that follows them in main() *)

\* positions = ["GK", "DEF", "MID", "FWD"], train_models.py line 210
TaskPositions == <<"GK", "DEF", "MID", "FWD">>

\* What a dataset directory holds: it does not exist, it has no .csv file,
\* or it has one.
DirStates == {"missing", "no_csv", "has_csv"}

\* One iteration of the loop of train_models.py lines 218-257: the directory
\* test (222-224), the dataset test (227-230), then dataset preparation and
\* training, which return or raise.
TrainPosition(dir, raises) ==
    /\ tpc = "positions"
    /\ dirIdx <= Len(TaskPositions)
    /\ LET position == TaskPositions[dirIdx]
       IN  /\ posDirs' = [posDirs EXCEPT ![position] = dir]
           /\ IF dir \in {"missing", "no_csv"}
              THEN /\ raises = FALSE
                   /\ skipped' = skipped \cup {position}
                   /\ UNCHANGED <<trained, raisedBy>>
              ELSE IF raises
                   THEN /\ raisedBy' = position
                        /\ UNCHANGED <<trained, skipped>>
                   ELSE /\ trained' = trained \cup {position}
                        /\ UNCHANGED <<skipped, raisedBy>>
           /\ tpc' = IF dir = "has_csv" /\ raises THEN "raised"
                     ELSE IF dirIdx = Len(TaskPositions) THEN "captain"
                     ELSE "positions"
    /\ dirIdx' = dirIdx + 1
    /\ UNCHANGED mainDir
    /\ UNCHANGED otherThanTasks

\* train_captain_models, train_models.py lines 275-312: os.listdir(main_dir)
\* raises FileNotFoundError for a directory that does not exist; without a
\* .csv file the task is skipped with a warning (281-283).
TrainCaptain(dir, raises) ==
    /\ tpc = "captain"
    /\ mainDir' = dir
    /\ IF dir = "missing"
       THEN /\ raises = FALSE
            /\ raisedBy' = "captain"
            /\ tpc' = "raised"
            /\ UNCHANGED <<trained, skipped>>
       ELSE IF dir = "no_csv"
       THEN /\ raises = FALSE
            /\ skipped' = skipped \cup {"captain"}
            /\ tpc' = "select_main"
            /\ UNCHANGED <<trained, raisedBy>>
       ELSE IF raises
            THEN /\ raisedBy' = "captain"
                 /\ tpc' = "raised"
                 /\ UNCHANGED <<trained, skipped>>
            ELSE /\ trained' = trained \cup {"captain"}
                 /\ tpc' = "select_main"
                 /\ UNCHANGED <<skipped, raisedBy>>
    /\ UNCHANGED <<dirIdx, posDirs>>
    /\ UNCHANGED otherThanTasks

\* train_ml_models.py lines 135-150 after the two training steps: without a
\* main CSV, or with one that cannot be read or is empty, main() logs an error
\* and returns; otherwise it goes on to the tiered loader.
SelectMainAfterTraining(found) ==
    /\ tpc = "select_main"
    /\ found \in MainDirStates
    /\ (found = "no_csv") <=> (mainDir = "no_csv")
    /\ tpc' = IF found = "ok" THEN "inject" ELSE "aborted"
    /\ UNCHANGED <<dirIdx, posDirs, mainDir, trained, skipped, raisedBy>>
    /\ UNCHANGED otherThanTasks

TaskNext ==
    \/ \E dir \in DirStates, raises \in BOOLEAN : TrainPosition(dir, raises)
    \/ \E dir \in DirStates, raises \in BOOLEAN : TrainCaptain(dir, raises)
    \/ \E found \in MainDirStates : SelectMainAfterTraining(found)

TaskInit ==
    /\ tpc = "positions"
    /\ dirIdx = 1
    /\ posDirs = [i \in {TaskPositions[j] : j \in 1..Len(TaskPositions)} |->
                     "unknown"]
    /\ mainDir = "unknown"
    /\ trained = {}
    /\ skipped = {}
    /\ raisedBy = ""

----------------------------------------------------------------------------
(* The directory main/: file names, selection, backup and restore *)

\* ord(c) of the characters that occur in the file names
Ord ==
    ("." :> 46) @@ ("0" :> 48) @@ ("1" :> 49) @@ ("2" :> 50) @@ ("3" :> 51)
    @@ ("4" :> 52) @@ ("5" :> 53) @@ ("6" :> 54) @@ ("7" :> 55)
    @@ ("8" :> 56) @@ ("9" :> 57) @@ ("_" :> 95) @@ ("a" :> 97)
    @@ ("b" :> 98) @@ ("c" :> 99) @@ ("d" :> 100) @@ ("e" :> 101)
    @@ ("f" :> 102) @@ ("g" :> 103) @@ ("i" :> 105) @@ ("j" :> 106)
    @@ ("k" :> 107) @@ ("l" :> 108) @@ ("m" :> 109) @@ ("n" :> 110)
    @@ ("o" :> 111) @@ ("p" :> 112) @@ ("r" :> 114) @@ ("s" :> 115)
    @@ ("t" :> 116) @@ ("u" :> 117) @@ ("v" :> 118)

\* a < b for two Python strings, given as sequences of characters
RECURSIVE StrLess(_, _)
StrLess(a, b) ==
    IF b = <<>> THEN FALSE
    ELSE IF a = <<>> THEN TRUE
    ELSE IF Ord[Head(a)] # Ord[Head(b)] THEN Ord[Head(a)] < Ord[Head(b)]
    ELSE StrLess(Tail(a), Tail(b))

\* s.endswith(suffix)
EndsWith(s, suffix) ==
    /\ Len(s) >= Len(suffix)
    /\ SubSeq(s, Len(s) - Len(suffix) + 1, Len(s)) = suffix

Digits == <<"0", "1", "2", "3", "4", "5", "6", "7", "8", "9">>
\* "%02d" % n, as strftime formats a field
TwoDigits(n) == <<Digits[(n \div 10) + 1], Digits[(n % 10) + 1]>>
\* str(n) for an int below 100
Decimal(n) == IF n < 10 THEN <<Digits[n + 1]>> ELSE TwoDigits(n)

\* datetime.now().strftime("%Y%m%d_%H%M%S") at second t of 2024-01-01 00:00,
\* training_data.py line 224
Timestamp(t) ==
    <<"2", "0", "2", "4", "0", "1", "0", "1", "_", "0", "0", "0", "0">>
        \o TwoDigits(t)

\* "fpl_training_data_"
NamePrefix ==
    <<"f", "p", "l", "_", "t", "r", "a", "i", "n", "i", "n", "g", "_",
      "d", "a", "t", "a", "_">>
DotCsv == <<".", "c", "s", "v">>
DotJson == <<".", "j", "s", "o", "n">>

\* f"fpl_training_data_{timestamp}.csv", training_data.py line 225
TimestampedCsv(t) == NamePrefix \o Timestamp(t) \o DotCsv
\* f"fpl_training_data_{timestamp}.json", training_data.py line 229
TimestampedJson(t) == NamePrefix \o Timestamp(t) \o DotJson
\* "fpl_training_data_multiseason.csv", train_ml_models.py line 98
MultiseasonCsv ==
    NamePrefix
        \o <<"m", "u", "l", "t", "i", "s", "e", "a", "s", "o", "n">>
        \o DotCsv

\* The process id of a run
Pid == 1
\* A backup name that keeps the dataset extension
BackupNameCsv(name, t) ==
    name \o <<".", "b", "a", "k", "_">> \o Decimal(Pid) \o <<"_">>
         \o Decimal(t) \o DotCsv
\* main_csv + f'.bak_{os.getpid()}_{int(time.time())}', lines 207-208
BackupName(name, t) ==
    name \o <<".", "b", "a", "k", "_">> \o Decimal(Pid) \o <<"_">>
         \o Decimal(t)

NoName == <<>>
NoDataset == [name |-> NoName, content |-> "none"]

FileNames(files) == {f.name : f \in files}
FileNamed(files, name) == CHOOSE f \in files : f.name = name

\* open(name, 'w') and write: the file is created or replaced
WriteFile(files, name, made, content) ==
    {f \in files : f.name # name}
        \cup {[name |-> name, made |-> made, content |-> content]}

\* [f for f in os.listdir(dir) if f.endswith('.csv')], train_ml_models.py
\* line 137 and train_models.py line 332
CsvFiles(files) == {n \in FileNames(files) : EndsWith(n, DotCsv)}

\* names.sort(reverse=True); names[0], lines 141-142 and 338-339
FirstInReverseOrder(names) ==
    CHOOSE n \in names : \A o \in names : ~StrLess(n, o)

\* Lines 87-107 with --prepare-data and cleaned_merged_seasons.csv present:
\* the merged frame is written to main/fpl_training_data_multiseason.csv.
PrepareMultiseason ==
    /\ fpc = "start"
    /\ mainDirFiles' = WriteFile(mainDirFiles, MultiseasonCsv, clock, "original")
    /\ clock' = clock + 1
    /\ fpc' = "select"
    /\ UNCHANGED <<runs, main_csv, backup_csv, dataset_path>>
    /\ UNCHANGED otherThanFiles

\* Lines 101-104 without the merged CSV: prepare_training_data writes a
\* timestamped CSV and a JSON file of the same name (training_data.py
\* 223-231).
PrepareTrainingData ==
    /\ fpc = "start"
    /\ mainDirFiles' =
           WriteFile(WriteFile(mainDirFiles, TimestampedCsv(clock), clock,
                               "original"),
                     TimestampedJson(clock), clock, "json")
    /\ clock' = clock + 1
    /\ fpc' = "select"
    /\ UNCHANGED <<runs, main_csv, backup_csv, dataset_path>>
    /\ UNCHANGED otherThanFiles

\* A run without --prepare-data (line 87)
SkipPrepare ==
    /\ fpc = "start"
    /\ fpc' = "select"
    /\ UNCHANGED <<runs, clock, mainDirFiles, main_csv, backup_csv,
                   dataset_path>>
    /\ UNCHANGED otherThanFiles

\* Lines 135-150, after the two training steps (which write no file into
\* main/): the first CSV name in reverse order is selected and read; without
\* a CSV, or with one that cannot be used, main() returns.
SelectMainFile(usable) ==
    /\ fpc = "select"
    /\ IF CsvFiles(mainDirFiles) = {}
       THEN /\ usable = FALSE
            /\ fpc' = "end"
            /\ UNCHANGED main_csv
       ELSE /\ main_csv' = FirstInReverseOrder(CsvFiles(mainDirFiles))
            /\ fpc' = IF usable THEN "backup" ELSE "end"
    /\ UNCHANGED <<runs, clock, mainDirFiles, backup_csv, dataset_path>>
    /\ UNCHANGED otherThanFiles

\* Lines 207-209: the backup name is built and copy2 copies the main file,
\* content and times; a failed copy (left: no file, or part of one) leaves
\* main().
CopyToBackup(left) ==
    /\ fpc = "backup"
    /\ backup_csv' = BackupName(main_csv, clock)
    /\ LET main == FileNamed(mainDirFiles, main_csv)
       IN  mainDirFiles' =
               IF left = "absent" THEN mainDirFiles
               ELSE WriteFile(mainDirFiles, backup_csv', main.made,
                              IF left = "copied" THEN main.content
                              ELSE "partial")
    /\ clock' = clock + 1
    /\ fpc' = IF left = "copied" THEN "write" ELSE "end"
    /\ UNCHANGED <<runs, main_csv, dataset_path>>
    /\ UNCHANGED otherThanFiles

\* Line 210: df.to_csv(main_csv) writes the augmented frame over the main
\* file; a failed write (left: untouched, or written in part) leaves main()
\* before the try.
OverwriteMain(left) ==
    /\ fpc = "write"
    /\ LET main == FileNamed(mainDirFiles, main_csv)
       IN  mainDirFiles' = WriteFile(mainDirFiles, main_csv, main.made, left)
    /\ fpc' = IF left = "augmented" THEN "transfer" ELSE "end"
    /\ UNCHANGED <<runs, clock, main_csv, backup_csv, dataset_path>>
    /\ UNCHANGED otherThanFiles

\* train_transfer_models, train_models.py lines 330-342: the first CSV name
\* of main/ in reverse order is the dataset the transfer pairs are built
\* from; without a CSV it returns {}.
SelectTransferDataset ==
    /\ fpc = "transfer"
    /\ dataset_path' =
           IF CsvFiles(mainDirFiles) = {} THEN NoDataset
           ELSE LET name == FirstInReverseOrder(CsvFiles(mainDirFiles))
                IN  [name |-> name,
                     content |-> FileNamed(mainDirFiles, name).content]
    /\ fpc' = "restore"
    /\ UNCHANGED <<runs, clock, mainDirFiles, main_csv, backup_csv>>
    /\ UNCHANGED otherThanFiles

\* finally: shutil.move(backup_csv, main_csv), lines 221-223, whether the
\* transfer training returned or raised: the backup file replaces the main
\* file.
MoveBackupToMain ==
    /\ fpc = "restore"
    /\ LET backup == FileNamed(mainDirFiles, backup_csv)
       IN  mainDirFiles' =
               WriteFile({f \in mainDirFiles : f.name # backup_csv},
                         main_csv, backup.made, backup.content)
    /\ fpc' = "end"
    /\ UNCHANGED <<runs, clock, main_csv, backup_csv, dataset_path>>
    /\ UNCHANGED otherThanFiles

\* The script is run again on the same data directory.
StartRun ==
    /\ fpc = "end"
    /\ runs < MaxRuns
    /\ runs' = runs + 1
    /\ fpc' = "start"
    /\ main_csv' = NoName
    /\ backup_csv' = NoName
    /\ dataset_path' = NoDataset
    /\ UNCHANGED <<clock, mainDirFiles>>
    /\ UNCHANGED otherThanFiles

FilesNext ==
    \/ PrepareMultiseason
    \/ PrepareTrainingData
    \/ SkipPrepare
    \/ \E usable \in BOOLEAN : SelectMainFile(usable)
    \/ \E left \in {"copied", "absent", "partial"} : CopyToBackup(left)
    \/ \E left \in {"augmented", "original", "partial"} : OverwriteMain(left)
    \/ SelectTransferDataset
    \/ MoveBackupToMain
    \/ StartRun

\* The first run starts at second StartSecond on an empty main/ directory.
StartSecond == 8
FilesInit ==
    /\ fpc = "start"
    /\ runs = 1
    /\ clock = StartSecond
    /\ mainDirFiles = {}
    /\ main_csv = NoName
    /\ backup_csv = NoName
    /\ dataset_path = NoDataset

----------------------------------------------------------------------------
(* Training tasks: the loops over the backends, train_models.py 215-259,
   294-312 and 347-365, as main() calls them (train_ml_models.py 112-219) *)

\* --model-types: the default 'basic,premium,elite' or a single tier
ModelTypeConfigs == {<<"basic", "premium", "elite">>, <<"basic">>}

gbm_types == <<"lgbm", "xgboost", "catboost", "tabnet">>
\* all_types = list(model_types) + gbm_types, lines 216, 295, 348
all_types == model_types \o gbm_types

\* The three training functions in the order main() awaits them
TrainingFunctions == <<"positions", "captain", "transfer">>

\* The task a loop iteration trains for: a position, or the function itself
CurrentTask ==
    IF TrainingFunctions[funIdx] = "positions" THEN TaskPositions[bposIdx]
    ELSE TrainingFunctions[funIdx]

\* args.model_types.split(','), train_ml_models.py line 67
ParseModelTypes(types) ==
    /\ bpc = "args"
    /\ model_types' = types
    /\ bpc' = "loop"
    /\ UNCHANGED <<funIdx, bposIdx, typeIdx, callLog, position_metrics,
                   metrics, returned, skippedTasks>>
    /\ UNCHANGED otherThanBackends

\* The dataset tests in front of a backend loop (lines 222-230, 281-283,
\* 334-336) find no dataset: a position is passed over with `continue`, the
\* captain and transfer functions return {}.
SkipTask ==
    /\ bpc = "loop"
    /\ typeIdx = 1
    /\ position_metrics = {}
    /\ skippedTasks' = skippedTasks \cup {CurrentTask}
    /\ IF TrainingFunctions[funIdx] = "positions"
            /\ bposIdx < Len(TaskPositions)
       THEN /\ bposIdx' = bposIdx + 1
            /\ UNCHANGED <<funIdx, metrics, returned, bpc>>
       ELSE /\ returned' = returned \cup metrics
            /\ metrics' = {}
            /\ bposIdx' = 1
            /\ funIdx' = IF funIdx < Len(TrainingFunctions) THEN funIdx + 1
                         ELSE funIdx
            /\ bpc' = IF funIdx < Len(TrainingFunctions) THEN "loop"
                      ELSE "done"
    /\ UNCHANGED <<model_types, typeIdx, callLog, position_metrics>>
    /\ UNCHANGED otherThanBackends

\* One iteration of `for model_type in all_types` (lines 241-255, 297-310,
\* 350-363): the model object is built, train() and save() are called and
\* the metrics are stored under model_type.  Neither call is inside a try:
\* an exception leaves the loop, the function and, through the await, main().
TrainBackend(outcome) ==
    /\ bpc = "loop"
    /\ typeIdx <= Len(all_types)
    /\ LET model_type == all_types[typeIdx]
       IN  /\ callLog' = Append(callLog,
                  [task |-> CurrentTask, model_type |-> model_type,
                   train |-> IF outcome = "train_raises" THEN "raised"
                             ELSE "returned",
                   save |-> CASE outcome = "train_raises" -> "not_called"
                              [] outcome = "save_raises" -> "raised"
                              [] OTHER -> "returned"])
           /\ IF outcome = "ok"
              THEN /\ position_metrics' = position_metrics \cup {model_type}
                   /\ typeIdx' = typeIdx + 1
                   /\ UNCHANGED bpc
              ELSE /\ bpc' = "raised"
                   /\ UNCHANGED <<position_metrics, typeIdx>>
    /\ UNCHANGED <<model_types, funIdx, bposIdx, metrics, returned,
                   skippedTasks>>
    /\ UNCHANGED otherThanBackends

\* The backend loop is exhausted: metrics[position] = position_metrics and
\* the next position (line 257), or `return metrics` (lines 259, 312, 365)
\* and the next function of main().
FinishTask ==
    /\ bpc = "loop"
    /\ typeIdx > Len(all_types)
    /\ LET recorded == metrics \cup {<<CurrentTask, b>> : b \in position_metrics}
       IN  IF TrainingFunctions[funIdx] = "positions"
                /\ bposIdx < Len(TaskPositions)
           THEN /\ metrics' = recorded
                /\ bposIdx' = bposIdx + 1
                /\ UNCHANGED <<funIdx, returned, bpc>>
           ELSE /\ returned' = returned \cup recorded
                /\ metrics' = {}
                /\ bposIdx' = 1
                /\ funIdx' = IF funIdx < Len(TrainingFunctions)
                             THEN funIdx + 1 ELSE funIdx
                /\ bpc' = IF funIdx < Len(TrainingFunctions) THEN "loop"
                          ELSE "done"
    /\ typeIdx' = 1
    /\ position_metrics' = {}
    /\ UNCHANGED <<model_types, callLog, skippedTasks>>
    /\ UNCHANGED otherThanBackends

BackendsNext ==
    \/ \E types \in ModelTypeConfigs : ParseModelTypes(types)
    \/ SkipTask
    \/ \E outcome \in {"ok", "train_raises", "save_raises"} :
           TrainBackend(outcome)
    \/ FinishTask

BackendsInit ==
    /\ bpc = "args"
    /\ model_types = <<>>
    /\ funIdx = 1
    /\ bposIdx = 1
    /\ typeIdx = 1
    /\ callLog = <<>>
    /\ position_metrics = {}
    /\ metrics = {}
    /\ returned = {}
    /\ skippedTasks = {}

----------------------------------------------------------------------------
(* Multi-season history: get_player_with_history_all_seasons,
   app/utils/fpl_data.py 223-260 *)

\* A record of a season file as fetch_fpl_history.py writes it (lines 49-56):
\* the player's id and the history entries of that season.
SeasonRecord(id, history) == [id |-> id, history |-> history]

\* What open() and json.load() find for a file of app/data/*.json: a file
\* that cannot be opened or parsed, or a list of records.
Unreadable == [readable |-> FALSE, players |-> <<>>]
SeasonFile(records) == [readable |-> TRUE, players |-> records]

\* The files considered: unreadable, empty, with one record of the requested
\* player 1 (with and without entries), with records of player 2 only, and
\* with records of both.
SeasonFileContents ==
    {Unreadable,
     SeasonFile(<<>>),
     SeasonFile(<<SeasonRecord(1, <<"a1", "a2">>)>>),
     SeasonFile(<<SeasonRecord(1, <<>>)>>),
     SeasonFile(<<SeasonRecord(2, <<"b1">>)>>),
     SeasonFile(<<SeasonRecord(2, <<"c1">>), SeasonRecord(1, <<"c2">>)>>)}

\* player_details.get('history', []) of the current season
DetailHistories == {<<>>, <<"now1", "now2">>}

\* A test that takes every record for the requested player's
AnyRecordMatches(p, player_id) == TRUE
\* p.get('id') == player_id and 'history' in p, line 245; every record
\* fetch_fpl_history.py writes has the key 'history' (line 55).
RecordMatches(p, player_id) == p.id = player_id

\* The loop of lines 244-247 over the records of one file: what it appends
\* to all_history.
RECURSIVE ExtendedBy(_, _)
ExtendedBy(records, player_id) ==
    IF records = <<>> THEN <<>>
    ELSE (IF RecordMatches(Head(records), player_id)
          THEN Head(records).history ELSE <<>>)
         \o ExtendedBy(Tail(records), player_id)

NoHistoryResult == [history |-> <<>>, from |-> "none"]

\* Lines 229-238: the player is looked up in the bootstrap data (not found:
\* the call raises), the season files are listed by glob in directory order.
CallAllSeasons(player_id, known, files) ==
    /\ hpc = "idle"
    /\ hplayer_id' = player_id
    /\ season_files' = files
    /\ fileIdx' = 1
    /\ all_history' = <<>>
    /\ hfound' = FALSE
    /\ hpc' = IF known THEN "files" ELSE "raised"
    /\ UNCHANGED history_result
    /\ UNCHANGED otherThanHistory

\* One iteration of `for season_file in season_files`, lines 239-249: an
\* exception of open() or json.load() is logged as a warning and the loop
\* goes on.
ReadSeasonFile ==
    /\ hpc = "files"
    /\ fileIdx <= Len(season_files)
    /\ LET season_data == season_files[fileIdx]
           matching == {i \in 1..Len(season_data.players) :
                           RecordMatches(season_data.players[i], hplayer_id)}
       IN  IF season_data.readable
           THEN /\ all_history' =
                       all_history \o ExtendedBy(season_data.players, hplayer_id)
                /\ hfound' = (hfound \/ matching # {})
           ELSE UNCHANGED <<all_history, hfound>>
    /\ fileIdx' = fileIdx + 1
    /\ UNCHANGED <<hpc, hplayer_id, season_files, history_result>>
    /\ UNCHANGED otherThanHistory

\* Lines 250-260: the current season's detail record is fetched in both
\* branches (a failed fetch raises out of the call); its history is used
\* only if nothing was found.
ReturnHistory(detail, fetched) ==
    /\ hpc = "files"
    /\ fileIdx > Len(season_files)
    /\ IF fetched
       THEN /\ history_result' =
                   IF ~hfound THEN [history |-> detail, from |-> "detail"]
                   ELSE [history |-> all_history, from |-> "files"]
            /\ hpc' = "returned"
       ELSE /\ hpc' = "raised"
            /\ UNCHANGED history_result
    /\ UNCHANGED <<hplayer_id, season_files, fileIdx, all_history, hfound>>
    /\ UNCHANGED otherThanHistory

HistoryNext ==
    \/ /\ hpc = "idle"
       /\ \E known \in BOOLEAN :
              \E files \in SeqsUpTo(SeasonFileContents, MaxSeasonFiles) :
                  CallAllSeasons(1, known, files)
    \/ ReadSeasonFile
    \/ \E detail \in DetailHistories, fetched \in BOOLEAN :
           ReturnHistory(detail, fetched)

HistoryInit ==
    /\ hpc = "idle"
    /\ hplayer_id = 0
    /\ season_files = <<>>
    /\ fileIdx = 1
    /\ all_history = <<>>
    /\ hfound = FALSE
    /\ history_result = NoHistoryResult

----------------------------------------------------------------------------
(* Fixtures: get_team_fixtures, get_fixture_difficulty and
   get_player_fixture_difficulty, app/utils/fpl_data.py 385-489 *)

\* A fixture dict of the upstream fixtures list; the keys is_home and
\* opponent are absent from it.
Fixture(event, team_h, team_a, team_h_difficulty, team_a_difficulty, finished) ==
    [event |-> event, team_h |-> team_h, team_a |-> team_a,
     team_h_difficulty |-> team_h_difficulty,
     team_a_difficulty |-> team_a_difficulty, finished |-> finished,
     is_home |-> "absent", opponent |-> 0]

\* The ids of the teams of the bootstrap data
TeamIds == {1, 2, 3}

\* The fixtures lists considered: teams 1 and 2 meeting twice, home and
\* away; and a list with a third team and a finished fixture.
FixturePayloads ==
    {<<Fixture(1, 1, 2, 2, 4, FALSE), Fixture(2, 2, 1, 3, 5, FALSE)>>,
     <<Fixture(1, 2, 3, 3, 3, TRUE), Fixture(2, 1, 2, 2, 4, FALSE),
       Fixture(3, 3, 1, 5, 2, FALSE)>>}

\* str(b) of a Python bool
BoolStr(b) == IF b THEN "True" ELSE "False"

\* Lines 399-409: the positions in all_fixtures of the dicts that the two
\* list comprehensions keep.  The lists hold the dicts of the cached list
\* themselves, not copies.
TeamFixtureRefs(all_fixtures, team_id, include_finished) ==
    LET kept == {i \in 1..Len(all_fixtures) :
                    /\ (all_fixtures[i].team_a = team_id
                           \/ all_fixtures[i].team_h = team_id)
                    /\ (include_finished \/ ~all_fixtures[i].finished)}
    IN  [n \in 1..Cardinality(kept) |->
            CHOOSE i \in kept : Cardinality({j \in kept : j < i}) = n - 1]

\* Lines 412-414 for one dict
Annotated(fixture, team_id) ==
    [fixture EXCEPT
        !.is_home = BoolStr(fixture.team_h = team_id),
        !.opponent = IF fixture.team_h = team_id THEN fixture.team_a
                     ELSE fixture.team_h]

\* Lines 412-414: the dicts of team_fixtures, which are dicts of the cached
\* list, get the two keys.
AnnotateAll(all_fixtures, refs, team_id) ==
    [i \in 1..Len(all_fixtures) |->
        IF \E n \in 1..Len(refs) : refs[n] = i
        THEN Annotated(all_fixtures[i], team_id)
        ELSE all_fixtures[i]]

\* No entry for an opponent in a row of the difficulty matrix
NoRating == 0

\* Lines 435-445: the loop that fills the difficulty matrix
RECURSIVE FillDifficulty(_, _)
FillDifficulty(fixtures, difficulty) ==
    IF fixtures = <<>> THEN difficulty
    ELSE LET fixture == Head(fixtures)
             home_team == fixture.team_h
             away_team == fixture.team_a
             home_difficulty == fixture.team_h_difficulty
             away_difficulty == fixture.team_a_difficulty
             first == [difficulty EXCEPT
                          ![home_team][away_team] = away_difficulty]
             second == [first EXCEPT
                           ![away_team][home_team] = home_difficulty]
         IN  FillDifficulty(Tail(fixtures), second)

\* get_fixture_difficulty, lines 427-447
get_fixture_difficulty(fixtures) ==
    FillDifficulty(fixtures, [t \in TeamIds |-> [o \in TeamIds |-> NoRating]])

\* difficulty_matrix[team_id].get(opponent_id, 3), line 480
DifficultyOrDefault(difficulty_matrix, team_id, opponent_id) ==
    IF opponent_id \in TeamIds
           /\ difficulty_matrix[team_id][opponent_id] # NoRating
    THEN difficulty_matrix[team_id][opponent_id]
    ELSE 3

NoFixtureCall ==
    [pc |-> "idle", team_id |-> 0, team_fixtures |-> <<>>, i |-> 0,
     result |-> <<>>]

\* get_fixtures_data, lines 112-122: the first call stores the upstream list
\* in data_cache.fixtures_data; the calls below find it cached and fresh.
FetchFixtures(payload) ==
    /\ fixtures_upstream = <<>>
    /\ fixtures_upstream' = payload
    /\ fixtures_data' = payload
    /\ UNCHANGED <<fcall, fixtureCalls>>
    /\ UNCHANGED otherThanFixtures

\* get_team_fixtures(team_id, include_finished) called by task c, lines
\* 396-416: with the fixtures cached no await suspends it, so it runs in one
\* piece; the caller then holds the returned list.
GetTeamFixtures(c, team_id, include_finished) ==
    /\ fixtures_upstream # <<>>
    /\ fixtureCalls < MaxFixtureCalls
    /\ fcall[c].pc \in {"idle", "holding", "done"}
    /\ LET refs == TeamFixtureRefs(fixtures_data, team_id, include_finished)
       IN  /\ fixtures_data' = AnnotateAll(fixtures_data, refs, team_id)
           /\ fcall' = [fcall EXCEPT
                  ![c] = [pc |-> "holding", team_id |-> team_id,
                          team_fixtures |-> refs, i |-> 0, result |-> <<>>]]
    /\ fixtureCalls' = fixtureCalls + 1
    /\ UNCHANGED fixtures_upstream
    /\ UNCHANGED otherThanFixtures

\* get_player_fixture_difficulty called by task c for a player of team
\* team_id, lines 462-475: get_team_fixtures(team_id), then the difficulty
\* matrix, whose await of get_teams can suspend the task.
StartPlayerFixtureDifficulty(c, team_id) ==
    /\ fixtures_upstream # <<>>
    /\ fixtureCalls < MaxFixtureCalls
    /\ fcall[c].pc \in {"idle", "holding", "done"}
    /\ LET refs == TeamFixtureRefs(fixtures_data, team_id, FALSE)
       IN  /\ fixtures_data' = AnnotateAll(fixtures_data, refs, team_id)
           /\ fcall' = [fcall EXCEPT
                  ![c] = [pc |-> "building", team_id |-> team_id,
                          team_fixtures |-> refs, i |-> 1, result |-> <<>>]]
    /\ fixtureCalls' = fixtureCalls + 1
    /\ UNCHANGED fixtures_upstream
    /\ UNCHANGED otherThanFixtures

\* One iteration of the loop of lines 476-487, between two awaits of
\* get_team_by_id: the entry is built from the dict as it is now.  The
\* rating fields the matrix of line 472 was built from never change.
AppendDifficulty(c) ==
    /\ fcall[c].pc = "building"
    /\ fcall[c].i <= Len(fcall[c].team_fixtures)
    /\ LET fixture == fixtures_data[fcall[c].team_fixtures[fcall[c].i]]
           team_id == fcall[c].team_id
           opponent_id == fixture.opponent
           difficulty_matrix == get_fixture_difficulty(fixtures_data)
           difficulty ==
               DifficultyOrDefault(difficulty_matrix, team_id, opponent_id)
       IN  fcall' = [fcall EXCEPT
               ![c].result = Append(@,
                   [gameweek |-> fixture.event, opponent |-> opponent_id,
                    is_home |-> fixture.is_home, difficulty |-> difficulty]),
               ![c].i = @ + 1]
    /\ UNCHANGED <<fixtures_data, fixtures_upstream, fixtureCalls>>
    /\ UNCHANGED otherThanFixtures

\* return result, line 489
ReturnDifficulty(c) ==
    /\ fcall[c].pc = "building"
    /\ fcall[c].i > Len(fcall[c].team_fixtures)
    /\ fcall' = [fcall EXCEPT ![c].pc = "done"]
    /\ UNCHANGED <<fixtures_data, fixtures_upstream, fixtureCalls>>
    /\ UNCHANGED otherThanFixtures

\* The teams asked for
RequestedTeams == {1, 2}

FixturesNext ==
    \/ \E payload \in FixturePayloads : FetchFixtures(payload)
    \/ \E c \in Callers, team_id \in RequestedTeams,
          include_finished \in BOOLEAN :
           GetTeamFixtures(c, team_id, include_finished)
    \/ \E c \in Callers, team_id \in RequestedTeams :
           StartPlayerFixtureDifficulty(c, team_id)
    \/ \E c \in Callers : AppendDifficulty(c)
    \/ \E c \in Callers : ReturnDifficulty(c)

FixturesInit ==
    /\ fixtures_data = <<>>
    /\ fixtures_upstream = <<>>
    /\ fcall = [c \in Callers |-> NoFixtureCall]
    /\ fixtureCalls = 0

----------------------------------------------------------------------------
Init ==
    /\ OrchInit /\ CacheInit /\ FeatInit /\ DataInit /\ TaskInit
    /\ FilesInit /\ BackendsInit /\ HistoryInit /\ FixturesInit

\* The training script and the application that owns the cache are separate
\* processes, and the extraction functions and dataset builders are called on
\* their own: each part has its own specification.
SpecOrch == Init /\ [][OrchNext]_vars
SpecCache == Init /\ [][CacheNext]_vars
SpecFeat == Init /\ [][FeatNext]_vars
SpecData == Init /\ [][DataNext]_vars
SpecTask == Init /\ [][TaskNext]_vars
SpecFiles == Init /\ [][FilesNext]_vars
SpecBackends == Init /\ [][BackendsNext]_vars
SpecHistory == Init /\ [][HistoryNext]_vars
SpecFixtures == Init /\ [][FixturesNext]_vars

----------------------------------------------------------------------------
(* Claims about the orchestrator, checked under SpecOrch *)

Exited == pc \in {"done", "raised", "aborted"}

\* The backup copy of line 209 has been made.
BackupMade ==
    \/ pc \in {"write", "train_transfer", "restore", "done"}
    \/ exitFrom \in {"write", "train_transfer"}

\* Positions whose resolution (lines 159-175) is complete while predictors is
\* in use.
Resolved ==
    IF pc \in {"resolve", "predict"}
    THEN {positions[i] : i \in 1..(posIdx - 1)}
    ELSE {}

\* C1: once main() has gone through the transfer-model step, whether
\* train_transfer_models returned or raised, the main dataset file holds the
\* content it had before line 210 overwrote it.
C1_MainRestoredAfterTransferStep ==
    (Exited /\ transferOutcome # "none") => mainFile = "original"

\* C1 witness: train_transfer_models raised, the exception left main(), and
\* the main file holds the original content again.
C1_Witness_RaisedAndRestored ==
    /\ pc = "raised"
    /\ exitFrom = "train_transfer"
    /\ transferOutcome = "raised"
    /\ mainFile = "original"
    /\ backupFile = "absent"

\* C2 (as claimed): once the backup copy exists, every exit of main() leaves
\* the original content in the main file, the exit where the write of the
\* augmented dataset over the main file fails included.
C2_RestoredOnEveryExitAfterBackup ==
    (Exited /\ BackupMade) => mainFile = "original"

\* C3 (as claimed): the predictor registered for a resolved position is the
\* one of the first tier, in tier_priority order, whose artifact exists and
\* whose load() returned True; without such a tier none is registered, so a
\* predictor whose load() failed is never the registered one.
C3_RegisteredIsHighestLoadedTier ==
    \A p \in Resolved :
        predictors[p] = IF loadedTier[p] = "none"
                        THEN NoPredictor
                        ELSE [tier |-> loadedTier[p], loaded |-> TRUE]

\* Only the basic artifact exists for the position being resolved.
OnlyBasicArtifact ==
    /\ Len(probeLog) = Len(tier_priority)
    /\ \A i \in 1..Len(probeLog) :
          (probeLog[i].art = "present") <=> (probeLog[i].tier = "basic")
    /\ \A i \in 1..Len(probeLog) :
          probeLog[i].tier # "basic" => probeLog[i].art = "absent"

\* C4: while a position is resolved the tiers are tried in tier_priority
\* order, load() is attempted only for a tier whose artifact exists, nothing
\* is attempted after a load() that returned True, and with only a basic
\* artifact the registered predictor is the basic one and basic is the only
\* tier load() was attempted for.
C4_NoLoadAfterSuccessNorForAbsent ==
    pc = "resolve" =>
        /\ \A i \in 1..Len(probeLog) :
              /\ probeLog[i].tier = tier_priority[i]
              /\ probeLog[i].load # "not_attempted" => probeLog[i].art = "present"
              /\ probeLog[i].load = "ok" => i = Len(probeLog)
        /\ (InnerLoopDone /\ OnlyBasicArtifact) =>
              /\ predictors[positions[posIdx]].tier = "basic"
              /\ \A i \in 1..Len(probeLog) :
                    probeLog[i].load # "not_attempted" => probeLog[i].tier = "basic"

\* C4 witness: a tier without artifact was passed over without a load, a
\* later tier loaded, and the loop was left with lower tiers untried.
C4_Witness_BreakWithLowerTiersLeft ==
    /\ pc = "resolve"
    /\ broke
    /\ Len(probeLog) = 2
    /\ probeLog[1].art = "absent" /\ probeLog[1].load = "not_attempted"
    /\ probeLog[2].load = "ok"
    /\ predictors[positions[posIdx]] = [tier |-> "elite", loaded |-> TRUE]

\* C5 (as claimed): a position for which no tier loaded has the line-175
\* warning, every row of that position gets its own points_per_game without
\* an error being logged for it, and main() does not leave from the loader or
\* the prediction loop.
C5_FallbackWarnedAndContinues ==
    /\ \A p \in Resolved :
          loadedTier[p] = "none" =>
              /\ p \in warned
              /\ \A i \in 1..Len(df) :
                    df[i] = p => pred_points[i] = PpgOfRow(i) /\ i \notin errorRows
    /\ exitFrom \notin {"resolve", "predict"}

----------------------------------------------------------------------------
(* Claims about the ingestion cache, checked under SpecCache *)

\* Resource k has a stored entry that is within its TTL.
Fresh(k) ==
    /\ cache[k].data # NoneData
    /\ cache[k].ts # NoTime
    /\ (now - cache[k].ts) <= CACHE_EXPIRY

PlayerKeys == {k \in Keys : k[1] = "player"}

\* C6 (as claimed): a call made while the resource has a stored entry within
\* its TTL returns the stored payload and sends no upstream request, whatever
\* the stored payload is, an empty one included.
C6_CallWithinTtlReturnsStoredWithoutRequest ==
    [][\A c \in Callers, k \in Keys :
          (Call(c, k) /\ Fresh(k)) =>
              /\ requests' = requests
              /\ lastRet' = [who |-> c, key |-> k, how |-> "hit",
                             data |-> cache[k].data, sent |-> 0]]_vars

\* C7 (as claimed): a call that finds no entry or an expired one sends exactly
\* one upstream request; when the response arrives the payload is stored with
\* the current time and returned; and a later call within the TTL of a stored
\* entry hits it.
C7_MissFetchesOnceStoresNowThenHits ==
    [][/\ \A c \in Callers, k \in Keys :
             (Call(c, k) /\ ~Fresh(k)) =>
                 /\ requests' = requests + 1
                 /\ task'[c].pc = "awaiting" /\ task'[c].key = k
       /\ \A c \in Callers :
             (task[c].pc = "responded" /\ task'[c].pc = "idle") =>
                 /\ cache'[task[c].key] = [data |-> task[c].data, ts |-> now]
                 /\ lastRet' = [who |-> c, key |-> task[c].key,
                                how |-> "fetched", data |-> task[c].data,
                                sent |-> 1]
                 /\ requests' = requests
       /\ \A c \in Callers, k \in Keys :
             (Call(c, k) /\ cache[k].ts # NoTime
                         /\ (now - cache[k].ts) <= CACHE_EXPIRY) =>
                 /\ lastRet'.how = "hit"
                 /\ lastRet'.data = cache[k].data
                 /\ requests' = requests]_vars

\* C8: an entry changes only in the step in which a task that fetched that
\* very resource stores its response, and that step leaves the payload and
\* the timestamp of every other resource as they were.
C8_StoreChangesOnlyItsOwnEntry ==
    [][\A k \in Keys :
          cache'[k] # cache[k] =>
              /\ \E c \in Callers : /\ task[c].pc = "responded"
                                    /\ task[c].key = k
                                    /\ task'[c].pc = "idle"
              /\ \A q \in Keys \ {k} : cache'[q] = cache[q]]_vars

\* C8 witness: the detail of one player was fetched later than that of
\* another, and the earlier entry still carries its own timestamp.
C8_Witness_TwoPlayersDifferentTimestamps ==
    \E p, q \in PlayerKeys :
        /\ p # q
        /\ cache[p].ts # NoTime
        /\ cache[q].ts # NoTime
        /\ cache[p].ts < cache[q].ts
        /\ lastRet.how = "fetched" /\ lastRet.key = q

\* C9: when the fetch of a call fails, the call ends with an error after the
\* one request it sent: no payload is returned, no further request is sent,
\* and the stored payload and timestamp of every resource stay as they were.
C9_FailedFetchErrorsOnceCacheUntouched ==
    [][\A c \in Callers :
          (task[c].pc = "awaiting" /\ task'[c].pc = "idle") =>
              /\ lastRet' = [who |-> c, key |-> task[c].key, how |-> "error",
                             data |-> NoneData, sent |-> 1]
              /\ requests' = requests
              /\ cache' = cache]_vars

\* C9 witness: the refresh of an expired entry failed; the expired payload is
\* still stored and was not returned.
C9_Witness_ExpiredEntryRefreshFailed ==
    /\ lastRet.how = "error"
    /\ lastRet.data = NoneData
    /\ cache[lastRet.key].data # NoneData
    /\ IsExpired(lastRet.key)

\* C10 (as claimed): a task whose miss overlapped another task's miss on the
\* same resource never replaces the stored payload by an older one, and the
\* timestamp it stores is the time of the store.
C10_ConcurrentOverwriteNeverOlder ==
    [][\A c \in Callers :
          (task[c].pc = "responded" /\ task[c].overlap /\ task'[c].pc = "idle") =>
              /\ cache'[task[c].key].data.v >= cache[task[c].key].data.v
              /\ cache'[task[c].key].ts = now]_vars

----------------------------------------------------------------------------
(* Claims about feature extraction, checked under SpecFeat *)

\* The call in progress was to one of the two extraction functions.
ExtractionCalled == op.kind \in {"convert", "process"}

\* C11 (as claimed): for any raw record, convert_player_to_features returns
\* exactly the fields of TRAINING_FEATURE_NAMES in that order, every value a
\* finite float, 0.0 where the raw value was None or non-finite.
C11_ConvertReturnsCanonicalFiniteFloats ==
    op.kind = "convert" =>
        /\ features.exc = "none"
        /\ features.names = TRAINING_FEATURE_NAMES
        /\ \A n \in DOMAIN features.vals : features.vals[n].k = "num"
        /\ raw.goals_scored \in {None, NaN} =>
               features.vals["goals_scored"] = Num(0)

\* C12 (as claimed): whatever the target list, prepare_features_for_model
\* (one record or a list) does not raise on the mismatch and returns exactly
\* the target's names in its order, with 0.0 for a name the extracted features
\* lack and the extracted value otherwise.
C12_PreparedNamesAreTargetList ==
    LET f == convert_player_to_features(raw)
    IN  (op.kind \in {"prepare_one", "prepare_list"} /\ f.exc = "none") =>
            /\ features.exc = "none"
            /\ features.names = op.target
            /\ \A n \in DOMAIN features.vals :
                   features.vals[n] =
                       IF n \in DOMAIN f.vals THEN f.vals[n] ELSE Num(0)

\* C13 (as claimed): on both paths a field that cannot be parsed (a form or
\* ownership string that is no number, a non-string ownership value) raises
\* nothing: the record still gives a feature vector, with 0.0 for the string
\* that is no number.
C13_UnparseableFieldNeverRaises ==
    (ExtractionCalled /\ raw.goals_scored.k = "num") =>
        /\ features.exc = "none"
        /\ raw.selected_by_percent = StrBad =>
               features.vals["ownership_percentage"] = Num(0)
        /\ raw.form = StrBad => features.vals["form"] = Num(0)

\* games_played as the claim has it: floor(minutes / 60) at inference, the
\* history entries with minutes at training.
ClaimedGamesPlayed ==
    IF op.kind = "convert" THEN raw.minutes.v \div 60
    ELSE TrainingGamesPlayed(raw)

\* C14 (as claimed): on both paths points_per_game is 0 when games_played is
\* 0 and total_points / games_played otherwise, and points_per_90 is 0 when
\* minutes is 0.
C14_RatesAreZeroWithoutGames ==
    (ExtractionCalled /\ features.exc = "none") =>
        /\ features.vals["points_per_game"] =
               IF ClaimedGamesPlayed = 0 THEN Num(0)
               ELSE Num(raw.total_points.v \div ClaimedGamesPlayed)
        /\ raw.minutes.v = 0 => features.vals["points_per_90"] = Num(0)

\* The canonical fields that do not depend on the match history.
HistoryFreeFields ==
    {"price", "ownership_percentage", "avg_fixture_difficulty",
     "team_strength", "minutes", "goals_scored", "assists", "clean_sheets",
     "goals_conceded", "own_goals", "penalties_saved", "penalties_missed",
     "yellow_cards", "red_cards", "saves", "bonus", "bps",
     "team_strength_attack_home", "team_strength_attack_away",
     "team_strength_defence_home", "team_strength_defence_away"}

\* C15 (as claimed): for a record both paths accept, training-time and
\* inference-time extraction give the same value to every history-free
\* canonical field, team_strength included.
C15_TrainingAndInferenceAgree ==
    LET f == convert_player_to_features(raw)
    IN  (op.kind = "process" /\ features.exc = "none" /\ f.exc = "none") =>
            \A n \in HistoryFreeFields : features.vals[n] = f.vals[n]

\* C16 (as claimed): on both paths recent_form is the mean of total_points
\* over the last 3 history entries (all of them when fewer), and the record's
\* form value when it has no history.
C16_RecentFormIsMeanOrForm ==
    (ExtractionCalled /\ features.exc = "none") =>
        features.vals["recent_form"] =
            IF raw.history = <<>> THEN features.vals["form"]
            ELSE Num(SumPoints(RecentHistory(raw.history))
                         \div Len(RecentHistory(raw.history)))

----------------------------------------------------------------------------
(* Claims about the dataset builders, checked under SpecData *)

\* C17: every row of the frame prepare_prediction_dataset returns has
\* next_gw_points and captain_points that are numbers greater than or equal
\* to 0, whatever the row's form, avg_fixture_difficulty and points_per_game
\* (negative or NaN included) and whatever the noise drawn for it.
C17_TargetsNeverNegative ==
    \A i \in 1..Len(predRows) :
        /\ predRows[i].next_gw_points.k = "num"
        /\ predRows[i].next_gw_points.v >= 0
        /\ predRows[i].captain_points.k = "num"
        /\ predRows[i].captain_points.v >= 0

\* C17 witness: a row with a positive next_gw_points whose noise draw takes
\* the captain target below zero before the clip, and a clipped captain
\* target of 0.
C17_Witness_CaptainClipped ==
    /\ dpc = "predicted"
    /\ \E i \in 1..Len(predRows) :
           /\ predRows[i].next_gw_points.v > 0
           /\ 20000 * predRows[i].next_gw_points.v
                  + 3 * predRows[i].z * predRows[i].next_gw_points.v < 0
           /\ predRows[i].captain_points = Num(0)

\* C18: every record of transfer_rows has different player_in_id and
\* player_out_id, and both of its players are rows of the group of the
\* record's position.
C18_PairsDistinctAndSamePosition ==
    \A i \in 1..Len(transfer_rows) :
        /\ transfer_rows[i].player_in_id # transfer_rows[i].player_out_id
        /\ transfer_rows[i].player_in_position = transfer_rows[i].position
        /\ transfer_rows[i].player_out_position = transfer_rows[i].position

\* C18 witness: the sample held the same player at two adjacent indices the
\* loop has passed, and a record was emitted for the position.
C18_Witness_AdjacentSamePlayerSkipped ==
    /\ dpc = "pairing"
    /\ \E i \in 1..pairIdx :
           players[i].player_id = players[i + 1].player_id
    /\ PairsOf(transfer_rows, Head(pending)) > 0

\* C19 (as claimed): the weights sum to 1.0, the quota of a position is
\* num_pairs times its weight up to rounding, and for a position with at
\* least two distinct players the number of pairs emitted is the quota up to
\* rounding.
C19_PairsEmittedMatchQuota ==
    /\ position_weights["GK"] + position_weights["DEF"]
           + position_weights["MID"] + position_weights["FWD"] = 100
    /\ \A i \in 1..Len(emitted) :
           LET e == emitted[i]
               exact == num_pairs * WeightOf(e.position)
           IN  /\ 100 * e.quota <= exact
               /\ exact < 100 * (e.quota + 1)
               /\ e.distinct >= 2 =>
                      /\ 100 * (e.pairs + 1) >= exact
                      /\ 100 * (e.pairs - 1) <= exact

----------------------------------------------------------------------------
(* Claims about the training tasks, checked under SpecTask *)

\* C20 (as claimed): a task whose position directory or main directory is
\* missing or holds no dataset CSV is skipped with a warning, no exception
\* leaves it, and the tasks after it still run.
C20_MissingDatasetSkipsTask ==
    /\ \A p \in DOMAIN posDirs :
           posDirs[p] \in {"missing", "no_csv"} =>
               p \in skipped /\ raisedBy # p
    /\ mainDir \in {"missing", "no_csv"} =>
           /\ "captain" \in skipped
           /\ raisedBy = ""

----------------------------------------------------------------------------
(* Further claims about the orchestrator, checked under SpecOrch *)

\* Row i belongs to a position for which no tier's load() returned True, or
\* to no resolved position at all.
NoModelLoadedFor(i) ==
    df[i] \notin PositionSet \/ loadedTier[df[i]] = "none"

\* C21 (as claimed): during and after the prediction loop pred_points holds
\* one value per row read, in row order; the value of a row whose prediction
\* raised, or for whose position no model loaded, is the row's own
\* points_per_game, and every other row holds its model's prediction.
C21_InjectedColumnAlignedWithFallback ==
    pc = "predict" =>
        /\ Len(pred_points) = Len(df)
        /\ exitFrom = ""
        /\ \A i \in 1..Len(df) :
              /\ pred_points[i].row = i
              /\ (i \in errorRows \/ NoModelLoadedFor(i))
                     => pred_points[i] = PpgOfRow(i)
              /\ ~(i \in errorRows \/ NoModelLoadedFor(i))
                     => pred_points[i].src = "model"

\* The steps of main() in the order of lines 109-223
StepOrder ==
    <<"train_positions", "train_captain", "select_main", "resolve", "predict",
      "backup", "write", "train_transfer", "restore", "done">>
StepRank(step) == CHOOSE i \in 1..Len(StepOrder) : StepOrder[i] = step

\* C23: main() moves from a step only to the step after it or out of main();
\* so position training has ended when captain training starts, captain
\* training has ended when the loader and the injection run, and
\* train_transfer_models starts only from the overwrite of line 210, with the
\* augmented dataset in the main file and the backup made.
C23_StepsRunInOrder ==
    [][/\ pc' # pc =>
              /\ ~Exited
              /\ \/ pc' \in {"raised", "aborted"}
                 \/ StepRank(pc') = StepRank(pc) + 1
       /\ pc' = "train_transfer" =>
              /\ pc \in {"write", "train_transfer"}
              /\ mainFile' = "augmented"
              /\ backupFile' = "original"]_vars

\* C23 witness: train_transfer_models is about to start, after the loader
\* and the injection, with the augmented dataset written over the main file.
C23_Witness_TransferStartsAfterWrite ==
    /\ pc = "train_transfer"
    /\ mainFile = "augmented"
    /\ backupFile = "original"
    /\ posIdx = Len(positions) + 1
    /\ transferOutcome = "none"

\* C27: from the moment copy2 starts until the restore has been made, and
\* at every exit of main() in between, the original content of the main
\* dataset is held in full by the main file or by the backup; and once the
\* run has gone through the restore no backup file is left.
C27_OriginalKeptInMainOrBackup ==
    /\ (pc \in {"backup", "write", "train_transfer", "restore"}
            \/ exitFrom \in {"backup", "write", "train_transfer"})
           => (mainFile = "original" \/ backupFile = "original")
    /\ (Exited /\ transferOutcome # "none") => backupFile = "absent"

\* C27 witness: the overwrite of line 210 failed part-way, main() was left
\* with a truncated main file, and the backup holds the original.
C27_Witness_TruncatedMainBackupIntact ==
    /\ pc = "raised"
    /\ exitFrom = "write"
    /\ mainFile = "partial"
    /\ backupFile = "original"

----------------------------------------------------------------------------
(* Further claims about the ingestion cache, checked under SpecCache *)

\* Resource k has a payload stored, and a timestamp stored
PayloadStored(k) == cache[k].data # NoneData
TimestampStored(k) == cache[k].ts # NoTime

\* C28: in every state a resource has a payload stored exactly when it has
\* a timestamp stored, and no step (hit, expiry, refresh, failed fetch,
\* upstream change) removes the payload or the timestamp of an entry or
\* moves its timestamp back.
C28_EntryCreatedOnceNeverRemoved ==
    [][\A k \in Keys :
           /\ PayloadStored(k) <=> TimestampStored(k)
           /\ (cache'[k].data # NoneData) <=> (cache'[k].ts # NoTime)
           /\ PayloadStored(k) =>
                  /\ cache'[k].data # NoneData
                  /\ cache'[k].ts >= cache[k].ts]_vars

\* C28 witness: an entry stored at time 0 expired and was refreshed by a
\* second fetch; it is present with the time of the refresh.
C28_Witness_EntryRefreshedAfterExpiry ==
    \E k \in Keys :
        /\ lastRet.how = "fetched"
        /\ lastRet.key = k
        /\ requests = 2
        /\ PayloadStored(k)
        /\ cache[k].ts = now
        /\ now > CACHE_EXPIRY
        /\ \A q \in Keys \ {k} : cache[q] = NoEntry

----------------------------------------------------------------------------
(* Claims about the directory main/, checked under SpecFiles *)

\* The names the runs so far can have given to a backup copy
BackupNames ==
    {BackupName(n, t) : n \in FileNames(mainDirFiles),
                        t \in StartSecond..clock}

\* C24: once train_transfer_models has selected its dataset, that dataset is
\* the file main() selected and overwrote, it holds the augmented frame, and
\* it is no backup copy, neither this run's nor one an earlier run left.
C24_TransferTrainsOnAugmentedMain ==
    fpc = "restore" =>
        /\ dataset_path.name = main_csv
        /\ dataset_path.content = "augmented"
        /\ dataset_path.name # backup_csv
        /\ dataset_path.name \notin BackupNames

\* C24 witness: the transfer step selected the augmented main file while the
\* directory held this run's backup, a backup left by an earlier run and a
\* second dataset CSV.
C24_Witness_AugmentedSelectedAmongBackups ==
    /\ fpc = "restore"
    /\ dataset_path = [name |-> main_csv, content |-> "augmented"]
    /\ Cardinality(CsvFiles(mainDirFiles)) >= 2
    /\ Cardinality(FileNames(mainDirFiles) \cap BackupNames) >= 2

\* C26 (as claimed): the CSV main() selects is the one produced last among
\* the CSV files of main/.
C26_SelectedIsMostRecentlyProduced ==
    fpc \in {"backup", "write", "transfer", "restore"} =>
        \A n \in CsvFiles(mainDirFiles) :
            FileNamed(mainDirFiles, n).made
                <= FileNamed(mainDirFiles, main_csv).made

----------------------------------------------------------------------------
(* Claims about the backend loops, checked under SpecBackends *)

AllTasks ==
    {TaskPositions[i] : i \in 1..Len(TaskPositions)} \cup {"captain", "transfer"}

\* The iterations logged for a task and a backend
IterationsOf(tk, model_type) ==
    {i \in 1..Len(callLog) :
        callLog[i].task = tk /\ callLog[i].model_type = model_type}

\* C25 (as claimed): when the training run has ended, every task was either
\* passed over for want of a dataset or trained; for a trained task every
\* backend of all_types had train() called exactly once and then save(),
\* whatever failed before it; and the metrics of every backend that was
\* trained and saved have reached main() under that task and backend.
C25_EveryBackendTrainedDespiteFailures ==
    bpc \in {"done", "raised"} =>
        /\ \A tk \in AllTasks \ skippedTasks :
               \A i \in 1..Len(all_types) :
                   Cardinality(IterationsOf(tk, all_types[i])) = 1
        /\ \A i \in 1..Len(callLog) :
               /\ callLog[i].train = "returned"
                      => callLog[i].save # "not_called"
               /\ callLog[i].save = "returned"
                      => <<callLog[i].task, callLog[i].model_type>>
                             \in returned

----------------------------------------------------------------------------
(* Claims about the multi-season history, checked under SpecHistory *)

\* The readable season files, and their records with the requested id, as
\* (file, record) index pairs
ReadableFiles == {i \in 1..Len(season_files) : season_files[i].readable}
ArchivedRecords ==
    UNION {{<<i, j>> : j \in {n \in 1..Len(season_files[i].players) :
                                 season_files[i].players[n].id = hplayer_id}} :
           i \in ReadableFiles}

\* The number of history entries of the archived records
RECURSIVE ArchivedEntries(_)
ArchivedEntries(S) ==
    IF S = {} THEN 0
    ELSE LET r == CHOOSE x \in S : TRUE
         IN  Len(season_files[r[1]].players[r[2]].history)
                 + ArchivedEntries(S \ {r})

\* history is the subsequence of the entries of record r
HoldsEntriesOf(history, r) ==
    LET entries == season_files[r[1]].players[r[2]].history
    IN  \E at \in 0..Len(history) :
            /\ at + Len(entries) <= Len(history)
            /\ SubSeq(history, at + 1, at + Len(entries)) = entries

----------------------------------------------------------------------------
(* Claims about the fixtures, checked under SpecFixtures *)

\* The tasks that hold a list returned by get_team_fixtures and still use it
UsingTeamFixtures ==
    {c \in Callers : fcall[c].pc \in {"holding", "building"}}

\* C29 (as claimed): every fixture of a list a task got from
\* get_team_fixtures(T) and still uses has is_home and opponent relative to
\* T, whatever calls other tasks have made since; the entries
\* get_player_fixture_difficulty has built carry the is_home of T; and the
\* cached fixtures list is as the upstream sent it.
C29_AnnotationsStayRelativeToCaller ==
    /\ \A c \in UsingTeamFixtures :
           \A n \in 1..Len(fcall[c].team_fixtures) :
               LET fixture == fixtures_data[fcall[c].team_fixtures[n]]
                   T == fcall[c].team_id
               IN  /\ fixture.is_home = BoolStr(fixture.team_h = T)
                   /\ fixture.opponent = IF fixture.team_h = T
                                         THEN fixture.team_a
                                         ELSE fixture.team_h
    /\ \A c \in Callers :
           \A n \in 1..Len(fcall[c].result) :
               LET fixture == fixtures_upstream[fcall[c].team_fixtures[n]]
               IN  fcall[c].result[n].is_home
                       = BoolStr(fixture.team_h = fcall[c].team_id)
    /\ fixtures_data = fixtures_upstream

\* C30 (as claimed): the difficulty of every entry built by
\* get_player_fixture_difficulty for a player of team T is the rating of T's
\* own side in the entry's fixture: team_h_difficulty when T is the home
\* team, team_a_difficulty when it is the away team.
C30_DifficultyIsOwnSideRating ==
    \A c \in Callers :
        \A n \in 1..Len(fcall[c].result) :
            LET fixture == fixtures_upstream[fcall[c].team_fixtures[n]]
                T == fcall[c].team_id
            IN  fcall[c].result[n].difficulty
                    = IF fixture.team_h = T THEN fixture.team_h_difficulty
                      ELSE fixture.team_a_difficulty

====
